---- MODULE Spec2Model ----
(***************************************************************************)
(* Model of the layer utilities of web/js/modules/layers/util.js:          *)
(* the date-range resolver (datesInDateRanges and its period steppers),    *)
(* the range overlap detector (dateOverlap), the dynamic range adjuster    *)
(* (adjustActiveDateRanges) and the permalink codec (serializeLayers,      *)
(* layersParse12, getLayerSpec).                                           *)
(*                                                                         *)
(* A Date object is modelled by its time value, counted in MINUTES since   *)
(* 1970-01-01T00:00Z (getTime() / 60000).  The timezone of the JavaScript  *)
(* environment is the state variable tzOffset, the value returned by       *)
(* Date.prototype.getTimezoneOffset() (minutes, positive west of UTC).     *)
(* The value "undefined" of a Date-valued variable is NoDate, and of a     *)
(* number-valued variable is Undef.                                        *)
(***************************************************************************)
EXTENDS Integers, Sequences, FiniteSets, TLC

VARIABLES
  op,            \* the entry point the run exercises, and how far it got
  tzOffset,      \* getTimezoneOffset() of the environment, in minutes
  def,           \* the layer definition the caller holds
  date,          \* the requested date
  limits,        \* <<>> or <<startDateLimit, endDateLimit>>
  appNow,        \* the application's "now", in whole minutes
  appNowMs,      \* the part of appNow below the unit of the ISO date strings
  dateArray,     \* the value returned by datesInDateRanges
  overlapResult, \* the value returned by dateOverlap
  firstAdjusted, \* def.dateRanges after the first adjustActiveDateRanges
  activeLayers,  \* the active layer list handed to serializeLayers
  permalink,     \* the layer string of a permalink
  parsed,        \* the outcome of layersParse12 or layersParse11
  events,        \* the ids handed to googleTagManager.pushEvent
  arg,           \* the arguments of a function called on its own
  returned       \* the value it returned

resolverVars == <<date, limits, dateArray>>
overlapVars == <<overlapResult>>
adjustVars == <<appNowMs, firstAdjusted>>
codecVars == <<activeLayers, permalink, parsed, events>>
callVars == <<arg, returned>>

vars == <<op, tzOffset, def, appNow, resolverVars, overlapVars, adjustVars, codecVars, callVars>>

\* "undefined" as the value of a Date-valued and of a number-valued variable
NoDate == -1
Undef == -1000000

MinutesPerDay == 1440

-----------------------------------------------------------------------------
(* Calendar arithmetic of the JavaScript Date object (proleptic Gregorian). *)

\* Day number of day d (1-based, may lie outside the month) of the month
\* mp (0 = March) of the year ya, a year that starts in March
DaysFromMarchYear(ya, mp, d) ==
  (ya \div 400) * 146097
  + (ya % 400) * 365 + ((ya % 400) \div 4) - ((ya % 400) \div 100)
  + ((153 * mp + 2) \div 5) + (d - 1) - 719468

\* The same for the month mm (1-based) of the calendar year yy
DaysFromYearMonth(yy, mm, d) ==
  DaysFromMarchYear(IF mm <= 2 THEN yy - 1 ELSE yy, (mm + 9) % 12, d)

\* Days since 1970-01-01 of the civil date (y, m, d); m is the 0-based month of
\* JavaScript and, like d, may lie outside its range: new Date(2020, 12, 0).
DaysFromCivil(y, m, d) == DaysFromYearMonth(y + (m \div 12), (m % 12) + 1, d)

\* The civil date of the day doy (0-based) of the year yy that starts in
\* March; mp is the month of that day (0 = March)
CivilFromMonth(yy, doy, mp) ==
  [year  |-> IF mp < 10 THEN yy ELSE yy + 1,
   month |-> IF mp < 10 THEN mp + 2 ELSE mp - 10,
   day   |-> doy - ((153 * mp + 2) \div 5) + 1]

CivilFromDayOfYear(yy, doy) == CivilFromMonth(yy, doy, (5 * doy + 2) \div 153)

\* era, doe (day of the 400-year era) and yoe (year of the era)
CivilFromYearOfEra(era, doe, yoe) ==
  CivilFromDayOfYear(yoe + era * 400,
                     doe - (365 * yoe + (yoe \div 4) - (yoe \div 100)))

CivilFromEra(era, doe) ==
  CivilFromYearOfEra(era, doe,
    (doe - (doe \div 1460) + (doe \div 36524) - (doe \div 146096)) \div 365)

\* The civil date [year, month (0-based), day] of a day number.
CivilFromDays(z) ==
  CivilFromEra((z + 719468) \div 146097, (z + 719468) % 146097)

\* Date.UTC(y, m, d, h, mi) / 60000
UTCDate(y, m, d, h, mi) == DaysFromCivil(y, m, d) * MinutesPerDay + h * 60 + mi

\* new Date(y, m, d, h, mi): the fields are read in the local timezone
LocalDateHM(y, m, d, h, mi) == UTCDate(y, m, d, h, mi) + tzOffset

\* new Date(y, m, d)
LocalDate(y, m, d) == LocalDateHM(y, m, d, 0, 0)

\* getUTCFullYear / getUTCMonth / getUTCDate / getUTCHours / getUTCMinutes
UTCFields(t) ==
  CivilFromDays(t \div MinutesPerDay) @@
  [hour |-> (t % MinutesPerDay) \div 60, minute |-> t % 60]

\* getFullYear / getMonth / getDate / getHours / getMinutes
LocalFields(t) == UTCFields(t - tzOffset)

\* util.getUTCNumbers(date, prefix)
getUTCNumbers(t) == UTCFields(t)

\* util.getTimezoneOffsetDate(date): the instant whose UTC fields are the
\* local fields of date
getTimezoneOffsetDate(t) == t - tzOffset

\* Math.ceil(a / b) for b > 0
CeilDiv(a, b) == -((-a) \div b)

Abs(a) == IF a < 0 THEN -a ELSE a

\* util.dayDiff(startDate, endDate)
dayDiff(a, b) == CeilDiv(Abs(b - a), MinutesPerDay)

\* util.monthDiff(startDate, endDate)
monthDiff(a, b) ==
  LET fa == LocalFields(a)
      fb == LocalFields(b)
      adj == IF fa.month = 0 THEN 1 ELSE 0
  IN  (fb.year - fa.year) * 12 + ((fb.month + adj) - (fa.month + adj)) - 1

\* util.yearDiff(startDate, endDate)
yearDiff(a, b) == LocalFields(b).year - LocalFields(a).year

Last(s) == s[Len(s)]
Front(s) == SubSeq(s, 1, Len(s) - 1)

-----------------------------------------------------------------------------
(* The date-range resolver.                                                 *)

\* getRevisedMaxEndDate(minDate, maxEndDate, startDateLimit, endDateLimit)
getRevisedMaxEndDate(minDate, maxEndDate, startDateLimit, endDateLimit) ==
  LET frontDateWithinRange ==
        startDateLimit >= minDate /\ startDateLimit <= maxEndDate
      backDateWithinRange ==
        endDateLimit <= maxEndDate /\ endDateLimit >= minDate
  IN  IF frontDateWithinRange \/ backDateWithinRange
      THEN endDateLimit
      ELSE maxEndDate

\* The for loop of getDateArrayLastDateInOrder: j runs from the last index
\* down; every pop shortens the array by one, so newDateArray[j] is its last
\* element until timeUnit is pushed.
RECURSIVE PopLaterDates(_, _)
PopLaterDates(timeUnit, arr) ==
  IF arr = <<>> THEN arr
  ELSE IF timeUnit <= Last(arr)
       THEN PopLaterDates(timeUnit, Front(arr))
       ELSE Append(arr, timeUnit)

\* getDateArrayLastDateInOrder(timeUnit, dateArray), dateArray non-empty
getDateArrayLastDateInOrder(timeUnit, arr) ==
  IF timeUnit < Last(arr) THEN PopLaterDates(timeUnit, arr) ELSE arr

\* The stepped instant number i of a range: new Date(minYear, minMonth + i *
\* interval, minDay) for monthly, new Date(minYear, minMonth, minDay + i *
\* interval) for daily, passed through util.getTimezoneOffsetDate.
SteppedDate(period, f, i, interval) ==
  getTimezoneOffsetDate(
    IF period = "monthly"
    THEN LocalDate(f.year, f.month + i * interval, f.day)
    ELSE LocalDate(f.year, f.month, f.day + i * interval))

\* The for loop of getMinStartDate, from step i with prevDate = prev
RECURSIVE MinStartLoop(_, _, _, _, _, _, _)
MinStartLoop(i, timeDiff, period, interval, startDateLimit, f, prev) ==
  IF i > timeDiff + 1 THEN NoDate
  ELSE LET timeUnit == SteppedDate(period, f, i, interval)
       IN  IF timeUnit > startDateLimit
           THEN prev
           ELSE MinStartLoop(i + 1, timeDiff, period, interval,
                             startDateLimit, f, timeUnit)

\* getMinStartDate(timeDiff, period, interval, startDateLimit, minYear,
\* minMonth, minDay); f holds minYear, minMonth and minDay
getMinStartDate(timeDiff, period, interval, startDateLimit, f) ==
  MinStartLoop(0, timeDiff, period, interval, startDateLimit, f, NoDate)

\* In the loops below the array carried from one round to the next is bound
\* as the one element of a set, so that it is computed once per round.

\* The body of the stepping loop shared by getMonthDateRange and
\* getDayDateRange: what one stepped instant does to newDateArray.
\* maxRangeDate is maxMonthDate resp. maxDayDate.
PushStepped(arr, unit, rangeLimitsProvided, minStartDate, maxEndDateTime, maxRangeDate) ==
  IF ~(unit < maxEndDateTime) THEN arr
  ELSE IF ~rangeLimitsProvided THEN Append(arr, unit)
  ELSE LET inOrder == IF Len(arr) > 0
                      THEN getDateArrayLastDateInOrder(unit, arr)
                      ELSE arr
       IN  IF minStartDate # NoDate
           THEN IF unit = minStartDate
                   \/ (unit > minStartDate /\ unit < maxRangeDate)
                THEN Append(inOrder, unit)
                ELSE inOrder
           ELSE Append(inOrder, unit)

RECURSIVE StepLoop(_, _, _, _, _, _, _, _, _, _)
StepLoop(i, n, arr, period, f, interval, rangeLimitsProvided, minStartDate, maxEndDateTime, maxRangeDate) ==
  IF i > n + 1 THEN arr
  ELSE CHOOSE result \in
         { StepLoop(i + 1, n, pushed, period, f, interval, rangeLimitsProvided,
                    minStartDate, maxEndDateTime, maxRangeDate) :
             pushed \in { PushStepped(arr, SteppedDate(period, f, i, interval),
                                      rangeLimitsProvided, minStartDate,
                                      maxEndDateTime, maxRangeDate) } } : TRUE

\* o is the options object built by datesInDateRanges: rangeLimitsProvided,
\* currentDateTime, startDateLimit, endDateLimit, minDate, maxDate,
\* dateIntervalNum, dateArray.
getMonthDateRange(o) ==
  LET mx == getUTCNumbers(o.maxDate)
      mn == getUTCNumbers(o.minDate)
      maxMonthDate == getTimezoneOffsetDate(
                        LocalDate(mx.year, mx.month + o.dateIntervalNum, mx.day))
      maxEndDateTime ==
        IF o.rangeLimitsProvided
        THEN getRevisedMaxEndDate(o.minDate, maxMonthDate,
                                  o.startDateLimit, o.endDateLimit)
        ELSE maxMonthDate
      monthDifference ==
        IF o.currentDateTime >= o.minDate /\ o.currentDateTime <= maxEndDateTime
        THEN CeilDiv(monthDiff(o.minDate, maxMonthDate), o.dateIntervalNum)
        ELSE Undef
      minStartMonthDate ==
        IF o.rangeLimitsProvided /\ monthDifference # Undef /\ monthDifference # 0
        THEN getMinStartDate(monthDifference, "monthly", o.dateIntervalNum,
                             o.startDateLimit, mn)
        ELSE NoDate
  IN  IF monthDifference = Undef THEN o.dateArray
      ELSE StepLoop(0, monthDifference, o.dateArray, "monthly", mn,
                    o.dateIntervalNum, o.rangeLimitsProvided,
                    minStartMonthDate, maxEndDateTime, maxMonthDate)

getDayDateRange(o) ==
  LET mx == getUTCNumbers(o.maxDate)
      mn == getUTCNumbers(o.minDate)
      maxDayDate == LocalDate(mx.year, mx.month, mx.day + o.dateIntervalNum)
      maxEndDate ==
        IF o.rangeLimitsProvided
        THEN getRevisedMaxEndDate(o.minDate, maxDayDate,
                                  o.startDateLimit, o.endDateLimit)
        ELSE maxDayDate
      dayDifference ==
        IF o.currentDateTime >= o.minDate /\ o.currentDateTime <= maxEndDate
        THEN CeilDiv(dayDiff(o.minDate, maxEndDate), o.dateIntervalNum)
        ELSE Undef
      minStartDayDate ==
        IF o.rangeLimitsProvided /\ dayDifference # Undef /\ dayDifference # 0
        THEN getMinStartDate(dayDifference, "daily", o.dateIntervalNum,
                             o.startDateLimit, mn)
        ELSE NoDate
  IN  IF dayDifference = Undef THEN o.dateArray
      ELSE StepLoop(0, dayDifference, o.dateArray, "daily", mn,
                    o.dateIntervalNum, o.rangeLimitsProvided,
                    minStartDayDate, maxEndDate, maxDayDate)

RECURSIVE YearLoop(_, _, _, _, _, _)
YearLoop(i, n, arr, f, interval, maxYearDateTime) ==
  IF i > n + 1 THEN arr
  ELSE LET year == LocalDate(f.year + i * interval, f.month, f.day)
       IN  CHOOSE result \in
             { YearLoop(i + 1, n, pushed, f, interval, maxYearDateTime) :
                 pushed \in { IF year < maxYearDateTime
                              THEN Append(arr, getTimezoneOffsetDate(year))
                              ELSE arr } } : TRUE

getYearDateRange(currentDateTime, minDate, maxDate, interval, arr) ==
  LET mx == getUTCNumbers(maxDate)
      mn == getUTCNumbers(minDate)
      maxYearDate == LocalDate(mx.year + interval, mx.month, mx.day)
      yearDifference ==
        IF currentDateTime >= minDate /\ currentDateTime <= maxYearDate
        THEN yearDiff(minDate, maxYearDate)
        ELSE Undef
  IN  IF yearDifference = Undef THEN arr
      ELSE YearLoop(0, yearDifference, arr, mn, interval, maxYearDate)

\* getBreakMaxDate(period, rangeEndDate)
getBreakMaxDate(period, rangeEndDate) ==
  LET f == getUTCNumbers(rangeEndDate)
  IN  CASE period = "yearly"  -> LocalDate(f.year + 1, f.month, f.day)
        [] period = "monthly" -> LocalDate(f.year, f.month + 1, f.day)
        [] period = "daily"   -> LocalDate(f.year, f.month, f.day + 1)

\* A faulty addSubDatesBasedOnPeriod: the monthly dates keep the day of the
\* requested date instead of the day of the range start.
addSubDatesAnchoredToCurrentDay(period, c, s) ==
  CASE period = "yearly" ->
         [dayBeforeCurrent  |-> LocalDate(c.year - 1, s.month, s.day),
          currentDateZeroed |-> LocalDate(c.year, s.month, s.day),
          dayAfterCurrent   |-> LocalDate(c.year + 1, s.month, s.day)]
    [] period = "monthly" ->
         [dayBeforeCurrent  |-> LocalDate(c.year, c.month - 1, c.day),
          currentDateZeroed |-> LocalDate(c.year, c.month, c.day),
          dayAfterCurrent   |-> LocalDate(c.year, c.month + 1, c.day)]
    [] period = "daily" ->
         [dayBeforeCurrent  |-> LocalDate(c.year, c.month, c.day - 1),
          currentDateZeroed |-> LocalDate(c.year, c.month, c.day),
          dayAfterCurrent   |-> LocalDate(c.year, c.month, c.day + 1)]

\* addSubDatesBasedOnPeriod(options): c holds minCurrentYear, minCurrentMonth
\* and minCurrentDay, s holds minStartMonth and minStartDay
addSubDatesBasedOnPeriod(period, c, s) ==
  CASE period = "yearly" ->
         [dayBeforeCurrent  |-> LocalDate(c.year - 1, s.month, s.day),
          currentDateZeroed |-> LocalDate(c.year, s.month, s.day),
          dayAfterCurrent   |-> LocalDate(c.year + 1, s.month, s.day)]
    [] period = "monthly" ->
         [dayBeforeCurrent  |-> LocalDate(c.year, c.month - 1, s.day),
          currentDateZeroed |-> LocalDate(c.year, c.month, s.day),
          dayAfterCurrent   |-> LocalDate(c.year, c.month + 1, s.day)]
    [] period = "daily" ->
         [dayBeforeCurrent  |-> LocalDate(c.year, c.month, c.day - 1),
          currentDateZeroed |-> LocalDate(c.year, c.month, c.day),
          dayAfterCurrent   |-> LocalDate(c.year, c.month, c.day + 1)]

\* the test that admits the previous date
PrevWithinRange(dayBeforeCurrentTime, breakMinDateTime) ==
  dayBeforeCurrentTime >= breakMinDateTime

\* the test that admits the next date
NextWithinRange(dayAfterCurrentTime, breakMaxDateTime) ==
  dayAfterCurrentTime <= breakMaxDateTime

\* getPrevCurrentNextDates(options)
getPrevCurrentNextDates(d, breakMinDateTime, breakMaxDateTime) ==
  (IF PrevWithinRange(d.dayBeforeCurrent, breakMinDateTime)
   THEN <<getTimezoneOffsetDate(d.dayBeforeCurrent)>> ELSE <<>>)
  \o <<getTimezoneOffsetDate(d.currentDateZeroed)>>
  \o (IF NextWithinRange(d.dayAfterCurrent, breakMaxDateTime)
      THEN <<getTimezoneOffsetDate(d.dayAfterCurrent)>> ELSE <<>>)

\* getLimitedDateRange(def, currentDate)
getLimitedDateRange(layer, currentDate) ==
  LET dateRange == layer.dateRanges[1]
      breakMinDateTime == dateRange.startDate
      breakMaxDateTime == getBreakMaxDate(layer.period, dateRange.endDate)
  IN  IF currentDate >= breakMinDateTime /\ currentDate <= breakMaxDateTime
      THEN getPrevCurrentNextDates(
             addSubDatesBasedOnPeriod(layer.period,
                                      getUTCNumbers(currentDate),
                                      getUTCNumbers(dateRange.startDate)),
             breakMinDateTime, breakMaxDateTime)
      ELSE <<>>

\* util.minuteDiff(startDate, endDate)
minuteDiff(a, b) == Abs(b - a)

\* new Date(t).setMinutes(m): the minutes of the local time are replaced
setMinutes(t, m) == t - ((t - tzOffset) % 60) + m

\* The earliest and latest instants of the requested hour window: lines
\* 588-604.  With limits the window reaches from an hour before the start
\* limit to an hour after the end limit, without limits from an hour before
\* to an hour after the requested date, its minutes set to those of minDate.
HourLimits(o, minMinute) ==
  IF o.rangeLimitsProvided
  THEN [before |-> setMinutes(o.startDateLimit, minMinute) - tzOffset - 60,
        after |-> setMinutes(o.endDateLimit, minMinute) - tzOffset + 60]
  ELSE [before |-> setMinutes(o.currentDateTime, minMinute) - 60,
        after |-> setMinutes(o.currentDateTime, minMinute) + 60]

\* minMinuteDate: lines 605-616
MinMinuteDate(o, hourBeforeStartDateLimit, minMinuteDateMinusIntervalOffset) ==
  IF o.rangeLimitsProvided
  THEN IF hourBeforeStartDateLimit < o.minDate
       THEN hourBeforeStartDateLimit
       ELSE IF hourBeforeStartDateLimit > minMinuteDateMinusIntervalOffset
            THEN hourBeforeStartDateLimit
            ELSE o.minDate
  ELSE IF hourBeforeStartDateLimit < o.minDate
       THEN o.minDate
       ELSE hourBeforeStartDateLimit

\* The body of the for loop of getSubdailyDateRange: lines 638-654
PushSubdaily(arr, f, i, rangeLimitsProvided, minMinuteDateTime) ==
  LET built == LocalDateHM(f.year, f.month, f.day, f.hour, f.minute + i)
      subdailyTime == IF rangeLimitsProvided THEN built
                      ELSE getTimezoneOffsetDate(built)
  IN  IF subdailyTime >= minMinuteDateTime
         /\ (Len(arr) > 0 => subdailyTime > Last(arr))
      THEN Append(arr, subdailyTime)
      ELSE arr

\* for (let i = 0; i <= minuteDifference + 1; i += dateIntervalNum)
RECURSIVE SubdailyLoop(_, _, _, _, _, _, _)
SubdailyLoop(i, n, arr, f, interval, rangeLimitsProvided, minMinuteDateTime) ==
  IF i > n + 1 THEN arr
  ELSE CHOOSE result \in
         { SubdailyLoop(i + interval, n, pushed, f, interval,
                        rangeLimitsProvided, minMinuteDateTime) :
             pushed \in { PushSubdaily(arr, f, i, rangeLimitsProvided,
                                       minMinuteDateTime) } } : TRUE

\* Lines 617-656 of getSubdailyDateRange, once the window is known
SubdailyWithin(o, minMinuteDate, maxMinuteDate) ==
  LET currentDateTimeCheck ==
        IF o.rangeLimitsProvided
        THEN getTimezoneOffsetDate(o.currentDateTime)
        ELSE o.currentDateTime
  IN  IF currentDateTimeCheck >= minMinuteDate
         /\ currentDateTimeCheck <= maxMinuteDate
      THEN SubdailyLoop(0, minuteDiff(minMinuteDate, maxMinuteDate),
                        o.dateArray, UTCFields(minMinuteDate),
                        o.dateIntervalNum, o.rangeLimitsProvided,
                        minMinuteDate)
      ELSE o.dateArray

\* Lines 583-619 of getSubdailyDateRange, with the UTC numbers of maxDate
\* and minDate and the hour window
SubdailyWindow(o, mx, mn, hours) ==
  SubdailyWithin(
    o,
    MinMinuteDate(o, hours.before,
                  getTimezoneOffsetDate(
                    LocalDateHM(mn.year, mn.month, mn.day, mn.hour,
                                mn.minute - o.dateIntervalNum))),
    IF hours.after > LocalDateHM(mx.year, mx.month, mx.day, mx.hour,
                                 mx.minute + o.dateIntervalNum)
    THEN LocalDateHM(mx.year, mx.month, mx.day, mx.hour,
                     mx.minute + o.dateIntervalNum)
    ELSE hours.after)

getSubdailyDateRange(o) ==
  SubdailyWindow(o, getUTCNumbers(o.maxDate), getUTCNumbers(o.minDate),
                 HourLimits(o, getUTCNumbers(o.minDate).minute))

\* The effective end of the range at index (1-based) in the coverage-panel
\* branch: lines 758-765.
OngoingMaxDate(layer, index, now) ==
  IF index = Len(layer.dateRanges) /\ layer.ongoing
  THEN IF layer.futureTime
       THEN layer.dateRanges[index].endDate
       ELSE now
  ELSE layer.dateRanges[index].endDate

\* The "next date" branch taken without limits when the requested date lies
\* before the range: lines 724-737.
AddNextDate(arr, minDate) ==
  IF arr # <<>>
  THEN IF Last(arr) > minDate
       THEN Front(arr) \o <<minDate, Last(arr)>>
       ELSE arr
  ELSE <<minDate>>

\* One call of the callback of lodashEach(dateRanges, ...) in
\* datesInDateRanges.  st holds the variables the callback closes over:
\* dateArray, currentDate, hitMaxLimitOfRange and runningMinDate.
RangeStep(layer, lim, now, st, index) ==
  LET dateRange == layer.dateRanges[index]
      rangeLimitsProvided == lim # <<>>
      singleDateRangeAndInterval ==
        ~rangeLimitsProvided /\ Len(layer.dateRanges) = 1
        /\ layer.dateRanges[1].dateInterval = 1
      minDate == dateRange.startDate
      maxDateTime == dateRange.endDate
      currentDateLessThanMinDate == st.currentDate < minDate
      currentDateGreaterThanMaxDate == st.currentDate > maxDateTime
      lastDateInDateArray == IF st.dateArray = <<>> THEN NoDate ELSE Last(st.dateArray)
      minDateWithinRangeLimits == minDate > lim[1] /\ minDate < lim[2]
      runningMinDateAndLastDateEarlier ==
        st.runningMinDate # NoDate /\ lastDateInDateArray # NoDate
        /\ lastDateInDateArray > minDate
      currentDate ==
        IF rangeLimitsProvided /\ currentDateLessThanMinDate
           /\ (minDateWithinRangeLimits \/ runningMinDateAndLastDateEarlier)
        THEN minDate
        ELSE st.currentDate
      maxDate == IF rangeLimitsProvided
                 THEN OngoingMaxDate(layer, index, now)
                 ELSE dateRange.endDate
      o == [rangeLimitsProvided |-> rangeLimitsProvided,
            currentDateTime |-> currentDate,
            startDateLimit |-> IF rangeLimitsProvided THEN lim[1] ELSE NoDate,
            endDateLimit |-> IF rangeLimitsProvided THEN lim[2] ELSE NoDate,
            minDate |-> minDate,
            maxDate |-> maxDate,
            dateIntervalNum |-> dateRange.dateInterval,
            dateArray |-> st.dateArray]
  IN  IF ~rangeLimitsProvided
         /\ (currentDateLessThanMinDate \/ currentDateGreaterThanMaxDate)
         /\ ~st.hitMaxLimitOfRange /\ currentDateLessThanMinDate
      THEN [st EXCEPT !.dateArray = AddNextDate(st.dateArray, minDate),
                      !.hitMaxLimitOfRange = TRUE]
      ELSE IF rangeLimitsProvided /\ dateRange.startDate = dateRange.endDate
      THEN IF minDate >= lim[1] /\ dateRange.endDate <= lim[2]
           THEN [st EXCEPT !.dateArray = Append(st.dateArray, minDate)]
           ELSE st
      ELSE IF singleDateRangeAndInterval
      THEN [st EXCEPT !.dateArray = getLimitedDateRange(layer, currentDate)]
      ELSE [st EXCEPT
              !.currentDate = currentDate,
              !.runningMinDate = minDate,
              !.dateArray =
                 CASE layer.period = "yearly" ->
                        getYearDateRange(currentDate, minDate, maxDate,
                                         dateRange.dateInterval, st.dateArray)
                   [] layer.period = "monthly" -> getMonthDateRange(o)
                   [] layer.period = "daily" -> getDayDateRange(o)
                   [] layer.period = "subdaily" -> getSubdailyDateRange(o)]

RECURSIVE EachRange(_, _, _, _, _)
EachRange(layer, lim, now, st, index) ==
  IF index > Len(layer.dateRanges) THEN st
  ELSE CHOOSE result \in
         { EachRange(layer, lim, now, next, index + 1) :
             next \in { RangeStep(layer, lim, now, st, index) } } : TRUE

\* datesInDateRanges(def, date, startDateLimit, endDateLimit, appNow); lim is
\* <<>> when a limit is missing and <<startDateLimit, endDateLimit>> otherwise
datesInDateRanges(layer, requested, lim, now) ==
  EachRange(layer, lim, now,
            [dateArray |-> <<>>, currentDate |-> requested,
             hitMaxLimitOfRange |-> FALSE, runningMinDate |-> NoDate],
            1).dateArray

-----------------------------------------------------------------------------
(* Inputs of the resolver.                                                  *)

\* Bounds of the enumerated layers: a range spans 0..MaxLen period units and
\* has dateInterval 1..MaxInterval; a layer declares 1..MaxRanges ranges.
MaxLen == 2
MaxInterval == 2
MaxRanges == 2

Periods == {"daily", "monthly", "yearly"}

\* getTimezoneOffset() of an environment east of, at and west of Greenwich
TZOffsets == {-360, 0, 300}

\* The day of the month the ranges of a layer are anchored to; for a
\* subdaily layer the minute of the hour
Anchors(period) ==
  CASE period = "monthly" -> {1, 15}
    [] period = "subdaily" -> {0, 7}
    [] OTHER -> {1}

\* The instant k period units after 2020-01-<anchor>T00:00Z; for a subdaily
\* layer k hours after 2021-06-01T10:<anchor>Z
UnitDate(period, anchor, k) ==
  CASE period = "daily"   -> UTCDate(2020, 0, anchor + k, 0, 0)
    [] period = "subdaily" -> UTCDate(2021, 5, 1, 10 + k, anchor)
    [] period = "monthly" -> UTCDate(2020, k, anchor, 0, 0)
    [] period = "yearly"  -> UTCDate(2020 + k, 0, anchor, 0, 0)

\* The range that starts s units after the base date
RangeAt(period, anchor, s, l, iv) ==
  [startDate |-> UnitDate(period, anchor, s),
   endDate |-> UnitDate(period, anchor, s + l),
   dateInterval |-> iv]

\* How far after the start of a range of span l the next declared range
\* starts: one unit later, at its end (the two touch) or one unit after its
\* end.  No range is declared twice.
Gaps(l) == {1, l, l + 1} \ {0}

\* The declared ranges of a layer: the first starts at the base date; each
\* further one starts Gaps(l) units after the start of the one before it
\* (so it overlaps, touches or follows it) and keeps its span and interval.
\* Ranges are listed by start date, as the capabilities documents the
\* configuration is built from list them.
RECURSIVE RangeChains(_, _, _, _, _, _)
RangeChains(period, anchor, s, l, iv, n) ==
  IF n = 1 THEN { <<RangeAt(period, anchor, s, l, iv)>> }
  ELSE { <<RangeAt(period, anchor, s, l, iv)>> } \cup
       UNION { { <<RangeAt(period, anchor, s, l, iv)>> \o rest :
                   rest \in RangeChains(period, anchor, s + g, l, iv, n - 1) } :
               g \in Gaps(l) }

RangeSeqs(period, anchor) ==
  UNION { RangeChains(period, anchor, 0, l, iv, MaxRanges) :
            l \in 0..MaxLen, iv \in 1..MaxInterval }

\* <<ongoing, futureTime>>
LayerFlags == { <<FALSE, FALSE>>, <<TRUE, FALSE>>, <<TRUE, TRUE>> }

\* The requested date: a unit boundary, 15:00 of that day or, in a monthly
\* layer, a day in the middle of the month; in a subdaily layer 7 or 30
\* minutes into the hour
RequestOffsets(period) ==
  CASE period = "monthly" -> {0, 900, 20160}
    [] period = "subdaily" -> {0, 7, 30}
    [] OTHER -> {0, 900}

Requests(period, anchor) ==
  { UnitDate(period, anchor, k) + off :
      k \in (-2)..(2 * MaxLen + 1), off \in RequestOffsets(period) }

\* The start and end dates of a coverage panel
LimitWindows == { <<-1, 2 * MaxLen + 2>>, <<1, 3>>, <<2, 2 * MaxLen + 1>> }

LimitsOf(period, anchor) ==
  { <<UnitDate(period, anchor, ab[1]), UnitDate(period, anchor, ab[2])>> :
      ab \in LimitWindows }

NowOf(period, anchor) == UnitDate(period, anchor, MaxLen + 1) + 600

-----------------------------------------------------------------------------
(* The resolver as a state machine: a caller holds a layer, a requested     *)
(* date, optional limits and now, and calls datesInDateRanges.              *)

\* The parts of the state a run of another entry point leaves alone
IdleResolver == date = NoDate /\ limits = <<>> /\ dateArray = <<>>
IdleOverlap == overlapResult = [overlap |-> FALSE, ranges |-> <<>>]
IdleAdjust == appNowMs = 0 /\ firstAdjusted = <<>>
IdleCodec ==
  /\ activeLayers = <<>>
  /\ permalink = <<>>
  /\ parsed = [threw |-> FALSE, layers |-> <<>>]
  /\ events = <<>>
IdleCall == arg = <<>> /\ returned = <<>>

\* The monthly layer of the documentation's example: one range
\* 2020-01-01..2020-06-01 with interval 1, requested on 2020-03-15
ExampleMonthlyLayer ==
  [period |-> "monthly", ongoing |-> FALSE, futureTime |-> FALSE,
   dateRanges |-> <<[startDate |-> UTCDate(2020, 0, 1, 0, 0),
                     endDate |-> UTCDate(2020, 5, 1, 0, 0),
                     dateInterval |-> 1]>>]

ExampleMonthlyRequest == UTCDate(2020, 2, 15, 0, 0)

InitResolve ==
  /\ op = "resolve"
  /\ tzOffset \in TZOffsets
  /\ \/ \E period \in Periods : \E anchor \in Anchors(period) :
          /\ \E rs \in RangeSeqs(period, anchor) :
               \/ /\ limits = <<>>
                  /\ def = [period |-> period, ongoing |-> FALSE,
                            futureTime |-> FALSE, dateRanges |-> rs]
               \/ /\ limits \in LimitsOf(period, anchor)
                  /\ \E fl \in LayerFlags :
                       def = [period |-> period, ongoing |-> fl[1],
                              futureTime |-> fl[2], dateRanges |-> rs]
          /\ date \in Requests(period, anchor)
          /\ appNow = NowOf(period, anchor)
     \/ /\ def = ExampleMonthlyLayer
        /\ date = ExampleMonthlyRequest
        /\ limits = <<>>
        /\ appNow = NowOf("monthly", 1)
  /\ dateArray = <<>>
  /\ IdleOverlap /\ IdleAdjust /\ IdleCodec /\ IdleCall

\* A caller asks for the dates of its layer
Resolve ==
  /\ op = "resolve"
  /\ dateArray' = datesInDateRanges(def, date, limits, appNow)
  /\ op' = "resolved"
  /\ UNCHANGED <<callVars, tzOffset, def, date, limits, appNow, overlapVars, adjustVars, codecVars>>

NextResolve == Resolve

SpecResolve == InitResolve /\ [][NextResolve]_vars

\* The minutes between the dates of a subdaily layer
SubdailyIntervals == {30, 60}

\* The subdaily layer of the documentation's example: one range of a day
\* from 2021-06-01T00:00Z with interval 60, requested at 12:07Z
ExampleSubdailyLayer ==
  [period |-> "subdaily", ongoing |-> FALSE, futureTime |-> FALSE,
   dateRanges |-> <<[startDate |-> UTCDate(2021, 5, 1, 0, 0),
                     endDate |-> UTCDate(2021, 5, 2, 0, 0),
                     dateInterval |-> 60]>>]

ExampleSubdailyRequest == UTCDate(2021, 5, 1, 12, 7)

\* A caller holds a subdaily layer whose ranges span whole hours
InitSubdaily ==
  /\ op = "resolve"
  /\ tzOffset \in TZOffsets
  /\ \/ \E anchor \in Anchors("subdaily") :
          /\ \E l \in 0..MaxLen, iv \in SubdailyIntervals :
               \E rs \in RangeChains("subdaily", anchor, 0, l, iv, MaxRanges) :
                 \/ /\ limits = <<>>
                    /\ def = [period |-> "subdaily", ongoing |-> FALSE,
                              futureTime |-> FALSE, dateRanges |-> rs]
                 \/ /\ limits \in LimitsOf("subdaily", anchor)
                    /\ \E fl \in LayerFlags :
                         def = [period |-> "subdaily", ongoing |-> fl[1],
                                futureTime |-> fl[2], dateRanges |-> rs]
          /\ date \in Requests("subdaily", anchor)
          /\ appNow = NowOf("subdaily", anchor)
     \/ /\ def = ExampleSubdailyLayer
        /\ date = ExampleSubdailyRequest
        /\ limits = <<>>
        /\ appNow = NowOf("subdaily", 0)
  /\ dateArray = <<>>
  /\ IdleOverlap /\ IdleAdjust /\ IdleCodec /\ IdleCall

SpecSubdaily == InitSubdaily /\ [][NextResolve]_vars

-----------------------------------------------------------------------------
(* Properties of the resolver.                                              *)

Elems(s) == { s[i] : i \in 1..Len(s) }

Ascending(s) == \A i \in 1..(Len(s) - 1) : s[i] < s[i + 1]

Resolved == op = "resolved"

\* The limited path of datesInDateRanges: no limits, one range, interval 1
LimitedMode ==
  /\ limits = <<>>
  /\ Len(def.dateRanges) = 1
  /\ def.dateRanges[1].dateInterval = 1

\* C1: the sequence returned by datesInDateRanges is strictly ascending, so
\* it holds no instant twice, whatever the layer, the requested date and the
\* limits.
C1_StrictlyAscending == Resolved => Ascending(dateArray)

\* C2: every date returned by datesInDateRanges lies in the half-open
\* interval [startDate, endDate) of one of the declared ranges of the layer.
C2_WithinHalfOpenRange ==
  Resolved =>
    \A d \in Elems(dateArray) :
      \E i \in 1..Len(def.dateRanges) :
        /\ def.dateRanges[i].startDate <= d
        /\ d < def.dateRanges[i].endDate

\* C9: in limited mode datesInDateRanges returns at most three dates, each in
\* [startDate, breakMaxDate), breakMaxDate being endDate advanced by one
\* period unit.
C9_LimitedWithinBreakDates ==
  (Resolved /\ LimitedMode) =>
    /\ Len(dateArray) <= 3
    /\ \A d \in Elems(dateArray) :
         /\ def.dateRanges[1].startDate <= d
         /\ d < getTimezoneOffsetDate(
                  getBreakMaxDate(def.period, def.dateRanges[1].endDate))

\* The month k months after the month of the requested date, on the day of
\* the month of the range start, at 00:00Z
AnchoredMonth(k) ==
  UTCDate(UTCFields(date).year, UTCFields(date).month + k,
          UTCFields(def.dateRanges[1].startDate).day, 0, 0)

C11_SubdailyWithinHourOfRequest ==
  (Resolved /\ def.period = "subdaily" /\ limits = <<>>) =>
    /\ \A d \in Elems(dateArray) : date - 60 <= d /\ d <= date + 60
    /\ \A i \in 1..(Len(dateArray) - 1) :
         dateArray[i + 1] - dateArray[i] = def.dateRanges[1].dateInterval

-----------------------------------------------------------------------------
(* The overlap detector.                                                    *)

\* The comparator dateOverlap hands to Array.prototype.sort
CompareStartDates(previous, current) ==
  IF previous.startDate < current.startDate THEN -1
  ELSE IF previous.startDate = current.startDate THEN 0
  ELSE 1

\* Array.prototype.sort is stable: a range is placed behind every range the
\* comparator does not put after it.
RECURSIVE InsertRange(_, _)
InsertRange(sorted, r) ==
  IF sorted = <<>> THEN <<r>>
  ELSE IF CompareStartDates(Last(sorted), r) <= 0 THEN Append(sorted, r)
       ELSE Append(InsertRange(Front(sorted), r), Last(sorted))

\* A faulty sort that leaves the ranges in the order given
LeaveUnsorted(ranges) == ranges

\* dateRanges.sort(comparator)
RECURSIVE SortRanges(_)
SortRanges(ranges) ==
  IF ranges = <<>> THEN <<>>
  ELSE InsertRange(SortRanges(Front(ranges)), Last(ranges))

\* new Date(y, m, d, h, mi) of the local fields f moved by dm months and dy
\* years: what setMonth and setFullYear leave in the Date
LocalFromFields(f, dm, dy) ==
  LocalDateHM(f.year + dy, f.month + dm, f.day, f.hour, f.minute)

\* previousEnd.setMonth(previousEnd.getMonth() + k)
setMonth(t, k) == LocalFromFields(LocalFields(t), k, 0)

\* previousEnd.setFullYear(previousEnd.getFullYear() + k)
setFullYear(t, k) == LocalFromFields(LocalFields(t), 0, k)

\* previousEnd after the daily branch (lines 1069-1076)
DailyPreviousEnd(period, previous) ==
  IF previous.dateInterval > 1 /\ period = "daily"
  THEN previous.endDate
       + (previous.dateInterval * MinutesPerDay - MinutesPerDay)
  ELSE previous.endDate

\* previousEnd.getTime() at line 1090
PreviousEnd(period, previous) ==
  IF period = "monthly"
  THEN setMonth(DailyPreviousEnd(period, previous), previous.dateInterval - 1)
  ELSE IF period = "yearly"
  THEN setFullYear(DailyPreviousEnd(period, previous), previous.dateInterval - 1)
  ELSE DailyPreviousEnd(period, previous)

\* A faulty overlap test that does not count ranges that touch
EndAfterStart(previousEnd, currentStart) == previousEnd > currentStart

\* const overlap = previousEnd >= currentStart
EndReachesStart(previousEnd, currentStart) == previousEnd >= currentStart

\* The callback of sortedRanges.reduce for idx > 0 (idx is 1-based here)
OverlapStep(period, arr, idx, result) ==
  IF EndReachesStart(PreviousEnd(period, arr[idx - 1]), arr[idx].startDate)
  THEN [overlap |-> TRUE,
        ranges |-> Append(result.ranges,
                          [previous |-> arr[idx - 1], current |-> arr[idx]])]
  ELSE result

\* sortedRanges.reduce(callback, {overlap: false, ranges: []}) from idx on
RECURSIVE OverlapReduce(_, _, _, _)
OverlapReduce(period, arr, idx, result) ==
  IF idx > Len(arr) THEN result
  ELSE IF idx = 1 THEN OverlapReduce(period, arr, idx + 1, result)
  ELSE CHOOSE final \in
         { OverlapReduce(period, arr, idx + 1, next) :
             next \in { OverlapStep(period, arr, idx, result) } } : TRUE

\* What dateOverlap finds in the sorted array
OverlapOfSorted(period, sortedRanges) ==
  OverlapReduce(period, sortedRanges, 1, [overlap |-> FALSE, ranges |-> <<>>])

\* dateOverlap(period, dateRanges)
dateOverlap(period, dateRanges) == OverlapOfSorted(period, SortRanges(dateRanges))

\* The ranges handed to dateOverlap: they start 0..MaxLen units after the
\* base date, span no or one unit and have the smallest or the largest
\* interval.
OverlapRanges(period) ==
  { RangeAt(period, 1, s, l, iv) :
      s \in 0..MaxLen, l \in {0, 1}, iv \in {1, MaxInterval} }

\* Up to MaxRanges + 1 of them, in any order
OverlapInputs(period) ==
  UNION { [1..n -> OverlapRanges(period)] : n \in 1..(MaxRanges + 1) }

\* The daily ranges of the documentation's example: 2020-01-01..2020-01-10
\* and 2020-01-05..2020-01-20, both with interval 1
ExampleDailyRanges ==
  <<[startDate |-> UTCDate(2020, 0, 1, 0, 0),
     endDate |-> UTCDate(2020, 0, 10, 0, 0), dateInterval |-> 1],
    [startDate |-> UTCDate(2020, 0, 5, 0, 0),
     endDate |-> UTCDate(2020, 0, 20, 0, 0), dateInterval |-> 1]>>

InitOverlap ==
  /\ op = "overlap"
  /\ tzOffset \in TZOffsets
  /\ \/ \E period \in Periods : \E rs \in OverlapInputs(period) :
          def = [period |-> period, ongoing |-> FALSE, futureTime |-> FALSE,
                 dateRanges |-> rs]
     \/ def = [period |-> "daily", ongoing |-> FALSE, futureTime |-> FALSE,
               dateRanges |-> ExampleDailyRanges]
  /\ appNow = 0
  /\ IdleResolver /\ IdleOverlap /\ IdleAdjust /\ IdleCodec /\ IdleCall

\* A caller checks the ranges of its layer for overlap; the sort is done in
\* the caller's array
DateOverlap ==
  /\ op = "overlap"
  /\ overlapResult' = dateOverlap(def.period, def.dateRanges)
  /\ def' = [def EXCEPT !.dateRanges = SortRanges(def.dateRanges)]
  /\ op' = "overlapped"
  /\ UNCHANGED <<callVars, tzOffset, appNow, resolverVars, adjustVars, codecVars>>

NextOverlap == DateOverlap

SpecOverlap == InitOverlap /\ [][NextOverlap]_vars

-----------------------------------------------------------------------------
(* Properties of the overlap detector.                                      *)

\* endDate moved on by dateInterval - 1 period units: days for daily, months
\* of the local calendar for monthly, years of it for yearly
EffectiveEnd(period, r) ==
  CASE period = "daily" ->
         r.endDate + (r.dateInterval - 1) * MinutesPerDay
    [] period = "monthly" ->
         LocalFromFields(LocalFields(r.endDate), r.dateInterval - 1, 0)
    [] period = "yearly" ->
         LocalFromFields(LocalFields(r.endDate), 0, r.dateInterval - 1)

\* The place of input[k] among the ranges of input ordered by start date,
\* ranges with equal start dates in the order of input
PlaceByStart(input, k) ==
  Cardinality({ j \in 1..Len(input) :
                  \/ input[j].startDate < input[k].startDate
                  \/ (input[j].startDate = input[k].startDate /\ j <= k) })

\* sorted lists the ranges of input by start date, ranges with equal start
\* dates in the order of input
IsStableSortOf(sorted, input) ==
  /\ Len(sorted) = Len(input)
  /\ \A k \in 1..Len(input) : sorted[PlaceByStart(input, k)] = input[k]

\* The pair of the range at i - 1 and the range at i
AdjacentPair(sorted, i) == [previous |-> sorted[i - 1], current |-> sorted[i]]

PairOverlaps(period, pair) ==
  EffectiveEnd(period, pair.previous) >= pair.current.startDate

\* pairs lists, in order, exactly the overlapping adjacent pairs of sorted
IsOverlappingPairsOf(pairs, period, sorted) ==
  \E at \in [1..Len(pairs) -> 2..Len(sorted)] :
    /\ \A k \in 1..Len(pairs) : pairs[k] = AdjacentPair(sorted, at[k])
    /\ \A k \in 1..(Len(pairs) - 1) : at[k] < at[k + 1]
    /\ \A i \in 2..Len(sorted) :
         PairOverlaps(period, AdjacentPair(sorted, i))
           <=> \E k \in 1..Len(pairs) : at[k] = i

\* C7: dateOverlap returns exactly the adjacent pairs of the start-sorted
\* input whose previous range, its end moved on by dateInterval - 1 period
\* units, reaches the start of the current one, and overlap is true iff there
\* is such a pair; the daily ranges 2020-01-01..2020-01-10 and
\* 2020-01-05..2020-01-20 give overlap = true with that one pair.
C7_OverlappingAdjacentPairs ==
  [][ (op = "overlap" /\ op' = "overlapped") =>
        /\ IsStableSortOf(def'.dateRanges, def.dateRanges)
        /\ IsOverlappingPairsOf(overlapResult'.ranges, def.period, def'.dateRanges)
        /\ overlapResult'.overlap <=> overlapResult'.ranges # <<>>
        /\ def.dateRanges = ExampleDailyRanges =>
             overlapResult' =
               [overlap |-> TRUE,
                ranges |-> <<[previous |-> ExampleDailyRanges[1],
                              current |-> ExampleDailyRanges[2]]>>] ]_vars

\* dateOverlap has reported two overlapping pairs for ranges it had to sort
C7_TwoPairsReported ==
  /\ op = "overlapped"
  /\ Len(overlapResult.ranges) = 2
  /\ Len(def.dateRanges) = 3
  /\ overlapResult.ranges[1].current = overlapResult.ranges[2].previous
  /\ def.dateRanges[1].startDate < def.dateRanges[3].startDate

\* C8: overlap is true iff two distinct ranges A and B exist with A starting
\* no later than B and A's interval-extended end reaching B's start, whether
\* or not they are adjacent.
C8_OverlapIffAnyPair ==
  op = "overlapped" =>
    (overlapResult.overlap <=>
       \E a, b \in 1..Len(def.dateRanges) :
         /\ a # b
         /\ def.dateRanges[a].startDate <= def.dateRanges[b].startDate
         /\ EffectiveEnd(def.period, def.dateRanges[a])
              >= def.dateRanges[b].startDate)

\* dateOverlap has reported an overlap where the first range reaches the
\* start of the third and the third is not part of a reported pair
C8_NonAdjacentOverlap ==
  /\ op = "overlapped"
  /\ Len(def.dateRanges) = 3
  /\ overlapResult.overlap
  /\ EffectiveEnd(def.period, def.dateRanges[1]) >= def.dateRanges[3].startDate
  /\ \A k \in 1..Len(overlapResult.ranges) :
       overlapResult.ranges[k].current # def.dateRanges[3]

-----------------------------------------------------------------------------
(* The dynamic range adjuster.  The dates of a range are ISO strings that   *)
(* hold whole units of time; a Date is a record of its whole units t and of *)
(* what it holds below them, ms.                                            *)

\* new Date(isoString)
DateOfString(str) == [t |-> str, ms |-> 0]

\* util.toISOStringSeconds(date): the fraction is dropped
toISOStringSeconds(d) == d.t

\* a < b on two Dates
DateBefore(a, b) == a.t < b.t \/ (a.t = b.t /\ a.ms < b.ms)

\* getUTCFullYear()
getUTCFullYear(d) == UTCFields(d.t).year

\* The Date with the UTC fields f and the fraction ms in the year given
DateInYear(f, ms, year) ==
  [t |-> UTCDate(year, f.month, f.day, f.hour, f.minute), ms |-> ms]

\* new Date(d.setUTCFullYear(year))
setUTCFullYear(d, year) == DateInYear(UTCFields(d.t), d.ms, year)

\* new Date('2021-12-31T00:00:00.000Z') moved to the year given
EndOfYearDate(year) == setUTCFullYear(DateOfString(UTCDate(2021, 11, 31, 0, 0)), year)

\* The end date of the range a year on, whatever appNow is
KeepEndDate(dynamicEndDate, now) == dynamicEndDate

\* dynamicEndDate < appNow ? dynamicEndDate : appNow
NotPastNow(dynamicEndDate, now) ==
  IF DateBefore(dynamicEndDate, now) THEN dynamicEndDate ELSE now

\* dateRangesModified.splice(i, 1, modifiedDateRange): the range at i gets
\* the end date given
SpliceEndDate(arr, i, endDate) == [arr EXCEPT ![i].endDate = endDate]

\* The last range is cut at the end of its year and no range is pushed
CutAtYearEnd(arr, i, now, appNowYear, endDateYear, dynamicStartDate) ==
  IF endDateYear < appNowYear
  THEN SpliceEndDate(arr, i, toISOStringSeconds(EndOfYearDate(endDateYear)))
  ELSE arr

\* Lines 1494-1530: the last range, at i, starts in a year before appNow's
ExtendByAYear(arr, i, now, appNowYear, endDateYear, dynamicStartDate) ==
  (IF endDateYear < appNowYear
   THEN SpliceEndDate(arr, i, toISOStringSeconds(EndOfYearDate(endDateYear)))
   ELSE arr)
  \o (IF DateBefore(dynamicStartDate, now)
      THEN <<[startDate |-> toISOStringSeconds(dynamicStartDate),
              endDate |-> toISOStringSeconds(
                            NotPastNow(setUTCFullYear(DateOfString(arr[i].endDate),
                                                      endDateYear + 1), now)),
              dateInterval |-> arr[i].dateInterval]>>
      ELSE <<>>)

\* Lines 1480-1530 for the last range, at i
AdjustLastRange(arr, i, now, appNowYear, startDateYear) ==
  IF startDateYear = appNowYear
  THEN SpliceEndDate(arr, i, toISOStringSeconds(now))
  ELSE IF startDateYear < appNowYear
  THEN ExtendByAYear(arr, i, now, appNowYear,
                     getUTCFullYear(DateOfString(arr[i].endDate)),
                     setUTCFullYear(DateOfString(arr[i].startDate),
                                    startDateYear + 1))
  ELSE arr

\* A loop body that treats every range of an interval above 1 as the last
AdjustEveryRange(arr, i, now) ==
  IF arr[i].dateInterval > 1
  THEN AdjustLastRange(arr, i, now, getUTCFullYear(now),
                       getUTCFullYear(DateOfString(arr[i].startDate)))
  ELSE arr

\* The body of the for loop for index i (1-based)
AdjustRange(arr, i, now) ==
  IF i = Len(arr) /\ arr[i].dateInterval > 1
  THEN AdjustLastRange(arr, i, now, getUTCFullYear(now),
                       getUTCFullYear(DateOfString(arr[i].startDate)))
  ELSE arr

\* A faulty loop that stops at the length the array had on entry: only the
\* range that was last then is examined
AdjustDeclaredRanges(arr, i, now) ==
  IF arr = <<>> THEN arr ELSE AdjustRange(arr, Len(arr), now)

\* for (let i = 0; i < dateRangesModified.length; i += 1): the length is read
\* again in every round, so a range pushed by the body is examined too
RECURSIVE AdjustLoop(_, _, _)
AdjustLoop(arr, i, now) ==
  IF i > Len(arr) THEN arr
  ELSE CHOOSE result \in
         { AdjustLoop(modified, i + 1, now) :
             modified \in { AdjustRange(arr, i, now) } } : TRUE

\* applyDateRangeAdjustment(layer): the new value of layer.dateRanges
applyDateRangeAdjustment(layer, now) ==
  IF ~layer.ongoing \/ layer.period = "subdaily"
  THEN layer.dateRanges
  ELSE AdjustLoop(layer.dateRanges, 1, now)

\* The Date appNow
NowDate == [t |-> appNow, ms |-> appNowMs]

\* The year of the page load times tried
AdjustNowYear == 2021

\* Page load times: the middle of a day in June, and the very start of
\* September
AdjustNows == { UTCDate(AdjustNowYear, 5, 15, 12, 0), UTCDate(AdjustNowYear, 8, 1, 0, 0) }

\* The last range of a layer: it starts on the first of January or of
\* September of a year from MaxLen years before appNow's to the year after
\* it, and ends 0, 2, 6 or 14 months later
AdjustLastRanges ==
  { [startDate |-> UTCDate(y, m, 1, 0, 0),
     endDate |-> UTCDate(y, m + k, 1, 0, 0),
     dateInterval |-> iv] :
      y \in (AdjustNowYear - MaxLen)..(AdjustNowYear + 1), m \in {0, 8},
      k \in {0, 2, 6, 14}, iv \in 1..MaxInterval }

\* The ranges before the last one: each covers the first half of a year
\* before those of the last range
RECURSIVE EarlierRanges(_)
EarlierRanges(n) ==
  IF n = 0 THEN <<>>
  ELSE Append(EarlierRanges(n - 1),
              [startDate |-> UTCDate(AdjustNowYear - MaxLen - 1 - MaxRanges + n, 0, 1, 0, 0),
               endDate |-> UTCDate(AdjustNowYear - MaxLen - 1 - MaxRanges + n, 6, 1, 0, 0),
               dateInterval |-> MaxInterval])

AdjustInputs ==
  { EarlierRanges(n) \o <<last>> : n \in 0..(MaxRanges - 1), last \in AdjustLastRanges }

InitAdjust ==
  /\ op = "adjust"
  /\ tzOffset = 0
  /\ \E period \in Periods \cup {"subdaily"} : \E ongoing \in BOOLEAN :
       \E rs \in AdjustInputs :
         def = [period |-> period, ongoing |-> ongoing, futureTime |-> FALSE,
                dateRanges |-> rs]
  /\ appNow \in AdjustNows
  /\ appNowMs \in {0, 500}
  /\ firstAdjusted = <<>>
  /\ IdleResolver /\ IdleOverlap /\ IdleCodec /\ IdleCall

\* adjustActiveDateRanges is applied to the layer for the first time
AdjustActiveDateRanges ==
  /\ op = "adjust"
  /\ def' = [def EXCEPT !.dateRanges = applyDateRangeAdjustment(def, NowDate)]
  /\ firstAdjusted' = def'.dateRanges
  /\ op' = "adjusted"
  /\ UNCHANGED <<callVars, tzOffset, appNow, appNowMs, resolverVars, overlapVars, codecVars>>

\* adjustActiveDateRanges is applied again with the same appNow
AdjustActiveDateRangesAgain ==
  /\ op = "adjusted"
  /\ def' = [def EXCEPT !.dateRanges = applyDateRangeAdjustment(def, NowDate)]
  /\ op' = "readjusted"
  /\ UNCHANGED <<callVars, tzOffset, appNow, adjustVars, resolverVars, overlapVars, codecVars>>

NextAdjust == AdjustActiveDateRanges \/ AdjustActiveDateRangesAgain

SpecAdjust == InitAdjust /\ [][NextAdjust]_vars

-----------------------------------------------------------------------------
(* Properties of the dynamic range adjuster.                                *)

\* C4: applying adjustActiveDateRanges a second time with the same appNow
\* leaves layer.dateRanges equal to the result of the first application.
C4_AdjustIdempotent == op = "readjusted" => def.dateRanges = firstAdjusted

\* The ranges of an ongoing layer have been extended by two ranges up to
\* appNow, and adjusted again
C4_ExtendedAndReadjusted ==
  /\ op = "readjusted"
  /\ def.ongoing
  /\ Len(def.dateRanges) = MaxRanges + 2
  /\ Last(def.dateRanges).endDate = appNow
  /\ appNowMs > 0

-----------------------------------------------------------------------------
(* The layer-state codec.  A string is a sequence of lexemes: each of the   *)
(* characters ( ) , = ; is a lexeme of its own, and every other lexeme is a *)
(* word, a run of other characters that is never split or joined (no word   *)
(* is made of two shorter ones).                                            *)

\* Array.prototype.join(sep)
RECURSIVE Join(_, _)
Join(strs, sep) ==
  IF strs = <<>> THEN <<>>
  ELSE IF Len(strs) = 1 THEN strs[1]
  ELSE Join(Front(strs), sep) \o <<sep>> \o Last(strs)

\* The pieces of str after the lexeme tok has been read behind them
SplitStep(pieces, tok, sep) ==
  IF tok = sep THEN Append(pieces, <<>>)
  ELSE [pieces EXCEPT ![Len(pieces)] = Append(@, tok)]

\* String.prototype.split(sep): the empty string gives one empty piece
RECURSIVE Split(_, _)
Split(str, sep) ==
  IF str = <<>> THEN << <<>> >>
  ELSE SplitStep(Split(Front(str), sep), Last(str), sep)

\* [^(,]
IsIdLexeme(tok) == tok # "(" /\ tok # ","

\* The last index of the run [^(,]+ that goes through index j
RECURSIVE RunEnd(_, _)
RunEnd(str, j) ==
  IF j + 1 <= Len(str) /\ IsIdLexeme(str[j + 1]) THEN RunEnd(str, j + 1) ELSE j

\* The index of the first ")" at or after index c, and 0 if there is none
RECURSIVE FirstClose(_, _)
FirstClose(str, c) ==
  IF c > Len(str) THEN 0
  ELSE IF str[c] = ")" THEN c
  ELSE FirstClose(str, c + 1)

\* (\([^)]*\))? behind a run that ends at j: the index of the closing
\* parenthesis, and j if the group matches nothing
GroupEnd(str, j) ==
  IF j + 1 <= Len(str) /\ str[j + 1] = "(" /\ FirstClose(str, j + 2) # 0
  THEN FirstClose(str, j + 2)
  ELSE j

\* ,? behind index e: the last index of the match
CommaEnd(str, e) ==
  IF e + 1 <= Len(str) /\ str[e + 1] = "," THEN e + 1 ELSE e

\* The last index of the match of /[^(,]+(\([^)]*\))?,?/ that starts at i
LayerDefEnd(str, i) == CommaEnd(str, GroupEnd(str, RunEnd(str, i)))

\* The matches from index i on, the first of them ending at e
RECURSIVE MatchLayerDefs(_, _)
MatchFrom(str, i, e) == <<SubSeq(str, i, e)>> \o MatchLayerDefs(str, e + 1)

\* str.match(/[^(,]+(\([^)]*\))?,?/g) from index i on; null is <<>>
MatchLayerDefs(str, i) ==
  IF i > Len(str) THEN <<>>
  ELSE IF ~IsIdLexeme(str[i]) THEN MatchLayerDefs(str, i + 1)
  ELSE MatchFrom(str, i, LayerDefEnd(str, i))

\* layerDef.match(/[^(,]+/)[0]; a layerDef starts with such a run
MatchLayerId(layerDef) == SubSeq(layerDef, 1, RunEnd(layerDef, 1))

\* The index of the first "(" at or after index k, and 0 if there is none
RECURSIVE FirstOpen(_, _)
FirstOpen(str, k) ==
  IF k > Len(str) THEN 0
  ELSE IF str[k] = "(" THEN k
  ELSE FirstOpen(str, k + 1)

\* The index of the last ")" at or before index c, and 0 if there is none
RECURSIVE LastClose(_, _)
LastClose(str, c) ==
  IF c < 1 THEN 0
  ELSE IF str[c] = ")" THEN c
  ELSE LastClose(str, c - 1)

\* The text from the "(" at open to the ")" at close; <<>> when either is
\* missing or the ")" comes first
ParensBetween(str, open, close) ==
  IF open # 0 /\ close # 0 /\ open < close THEN SubSeq(str, open, close) ELSE <<>>

\* layerDef.match(/\(.*\)/): the match, <<>> for null
MatchParens(layerDef) ==
  ParensBetween(layerDef, FirstOpen(layerDef, 1), LastClose(layerDef, Len(layerDef)))

IsNoParen(tok) == tok # "(" /\ tok # ")"

\* arrayAttr[0].replace(/[()]/g, '')
RemoveParens(str) == SelectSeq(str, IsNoParen)

\* An attribute value: the boolean true (bare) or a string
TrueValue == [bare |-> TRUE, str |-> <<>>]
StringValue(str) == [bare |-> FALSE, str |-> str]

\* The attribute pushed for the parts of kvp.split('=')
AttributeOfParts(parts) ==
  IF Len(parts) = 1
  THEN [id |-> parts[1], value |-> TrueValue]
  ELSE [id |-> parts[1], value |-> StringValue(parts[2])]

\* lodashEach(kvps, ...): the attributes of the key-value pairs
AttributesOfPairs(kvps) ==
  [n \in 1..Len(kvps) |-> AttributeOfParts(Split(kvps[n], "="))]

\* The attributes read from arrayAttr
AttributesOfParens(arrayAttr) ==
  IF arrayAttr = <<>> THEN <<>>
  ELSE AttributesOfPairs(Split(RemoveParens(arrayAttr), ","))

\* The lstate of a layerDef; the catalog has no redirects
LayerStateOf(layerDef) ==
  [id |-> MatchLayerId(layerDef),
   attributes |-> AttributesOfParens(MatchParens(layerDef))]

\* lstates in layersParse12
LayerStatesOf(str) ==
  [n \in 1..Len(MatchLayerDefs(str, 1)) |-> LayerStateOf(MatchLayerDefs(str, 1)[n])]

\* Numbers are counted in hundredths; NaN is the value below
NaN == -999999

\* The words that parseFloat reads as a number, and their values
NumberWords == {"-1", "0", "0.5", "1", "2"}

WordValue(w) ==
  CASE w = "-1" -> -100 [] w = "0" -> 0 [] w = "0.5" -> 50 [] w = "1" -> 100
    [] w = "2" -> 200

\* parseFloat(str): the number the string starts with
parseFloat(str) ==
  IF str # <<>> /\ str[1] \in NumberWords THEN WordValue(str[1]) ELSE NaN

\* `${number}` for the opacities a layer can have
NumberToString(n) ==
  CASE n = 0 -> <<"0">> [] n = 50 -> <<"0.5">> [] n = 100 -> <<"1">>

\* util.clamp(val, min, max); every comparison with NaN is false
clamp(val, min, max) ==
  IF val = NaN THEN NaN
  ELSE IF val < min THEN min
  ELSE IF val > max THEN max
  ELSE val

\* An opacity that is left as it was clamped
KeepNaN(opacity) == opacity

\* opacity after lines 916-918 for a clamped value
ZeroIfNaN(opacity) == IF opacity = NaN THEN 0 ELSE opacity

\* parseFloat(attr.value): the boolean true is read as the text "true"
ParseValue(value) == IF value.bare THEN NaN ELSE parseFloat(value.str)

\* The min or max array built from the segments from index n on
RECURSIVE NumbersFrom(_, _)
NumberSlot(values, n, number) ==
  (IF values[n] = <<>> THEN <<Undef>>
   ELSE IF number = NaN THEN <<>>
   ELSE <<number>>) \o NumbersFrom(values, n + 1)

NumbersFrom(values, n) ==
  IF n > Len(values) THEN <<>>
  ELSE NumberSlot(values, n, parseFloat(values[n]))

\* squashArray
SquashOf(values) == [n \in 1..Len(values) |-> values[n] = <<"true">>]

\* Number(attr.value)
NumberOf(value) ==
  IF value.bare THEN 100
  ELSE IF value.str = <<>> THEN 0
  ELSE IF Len(value.str) = 1 THEN parseFloat(value.str)
  ELSE NaN

\* The ids whose value is split without a test of its type
SplitIds == { <<"disabled">>, <<"bands">>, <<"palette">>, <<"style">> }

\* attr.value.split(';') throws a TypeError when attr.value is true
SplitThrows(attr) == attr.id \in SplitIds /\ attr.value.bare

\* The variables of getLayerSpec before the first attribute
InitialSpec ==
  [hidden |-> FALSE, opacity |-> 100, max |-> <<>>, min |-> <<>>,
   squash |-> <<>>, custom |-> <<>>, disabled |-> <<>>, count |-> Undef,
   bandCombo |-> <<>>, threw |-> FALSE]

\* The callback of lodashEach(attributes, ...) in getLayerSpec for an
\* attribute that raises no exception; undefined arrays are <<>>
ReadAttribute(spec, attr) ==
  CASE attr.id = <<"hidden">> -> [spec EXCEPT !.hidden = TRUE]
    [] attr.id = <<"opacity">> ->
         [spec EXCEPT !.opacity = ZeroIfNaN(clamp(ParseValue(attr.value), 0, 100))]
    [] attr.id = <<"disabled">> ->
         [spec EXCEPT !.disabled = Split(attr.value.str, ";")]
    [] attr.id = <<"max">> /\ ~attr.value.bare ->
         [spec EXCEPT !.max = NumbersFrom(Split(attr.value.str, ";"), 1)]
    [] attr.id = <<"min">> /\ ~attr.value.bare ->
         [spec EXCEPT !.min = NumbersFrom(Split(attr.value.str, ";"), 1)]
    [] attr.id = <<"squash">> ->
         [spec EXCEPT !.squash = IF attr.value.bare THEN <<TRUE>>
                                 ELSE SquashOf(Split(attr.value.str, ";"))]
    [] attr.id = <<"bands">> ->
         [spec EXCEPT !.bandCombo = Split(attr.value.str, ";")]
    [] attr.id \in { <<"palette">>, <<"style">> } ->
         [spec EXCEPT !.custom = Split(attr.value.str, ";")]
    [] attr.id = <<"count">> -> [spec EXCEPT !.count = NumberOf(attr.value)]
    [] OTHER -> spec

\* The ids getLayerSpec reads
KnownIds ==
  { <<"hidden">>, <<"opacity">>, <<"disabled">>, <<"max">>, <<"min">>,
    <<"squash">>, <<"bands">>, <<"palette">>, <<"style">>, <<"count">> }

\* A callback that raises an exception for an id it does not read
ApplyKnownAttribute(spec, attr) ==
  IF spec.threw THEN spec
  ELSE IF SplitThrows(attr) \/ attr.id \notin KnownIds THEN [spec EXCEPT !.threw = TRUE]
  ELSE ReadAttribute(spec, attr)

\* The callback for any attribute; an exception ends the loop
ApplyAttribute(spec, attr) ==
  IF spec.threw THEN spec
  ELSE IF SplitThrows(attr) THEN [spec EXCEPT !.threw = TRUE]
  ELSE ReadAttribute(spec, attr)

\* lodashEach(attributes, ...) over the first n attributes
RECURSIVE EachAttribute(_, _)
EachAttribute(attributes, n) ==
  IF n = 0 THEN InitialSpec
  ELSE ApplyAttribute(EachAttribute(attributes, n - 1), attributes[n])

\* getLayerSpec(attributes); threw tells that it raised an exception
getLayerSpec(attributes) == EachAttribute(attributes, Len(attributes))

\* config.layers: an overlay with a palette, an overlay without one and a
\* base layer
Catalog ==
  (<<"a">> :> [group |-> "overlays", palette |-> TRUE]) @@
  (<<"b">> :> [group |-> "overlays", palette |-> FALSE]) @@
  (<<"c">> :> [group |-> "baselayers", palette |-> FALSE])

\* config.defaults.startingLayers
StartingLayers == << <<"c">>, <<"a">> >>

\* The layer addLayer makes of the catalog entry id and of spec
NewLayer(id, spec) ==
  [id |-> id, group |-> Catalog[id].group, visible |-> ~spec.hidden,
   opacity |-> spec.opacity, bandCombo |-> spec.bandCombo,
   custom |-> spec.custom, min |-> spec.min, max |-> spec.max,
   squash |-> spec.squash, disabled |-> spec.disabled, count |-> spec.count]

IsOverlay(layer) == layer.group = "overlays"

\* layers.splice(at, 0, def) with at counted from 0
InsertLayer(layers, at, layer) ==
  SubSeq(layers, 1, at) \o <<layer>> \o SubSeq(layers, at + 1, Len(layers))

\* addLayer(id, spec, layers, config.layers, overlayLength, projection) of
\* modules/layers/selectors: a layer that is active already is not added
\* again, an overlay goes to the top of the list and a base layer to the top
\* of the base layers
addLayer(id, spec, layers) ==
  IF \E n \in 1..Len(layers) : layers[n].id = id THEN layers
  ELSE IF Catalog[id].group = "overlays"
  THEN <<NewLayer(id, spec)>> \o layers
  ELSE InsertLayer(layers, Len(SelectSeq(layers, IsOverlay)), NewLayer(id, spec))

\* resetLayers(config) of modules/layers/selectors: the first n starting layers
RECURSIVE StartingLayersUpTo(_)
StartingLayersUpTo(n) ==
  IF n = 0 THEN <<>>
  ELSE addLayer(StartingLayers[n], InitialSpec, StartingLayersUpTo(n - 1))

resetLayers == StartingLayersUpTo(Len(StartingLayers))

\* The callback of layers.reverse().forEach in createLayerArrayFromState for
\* a layerDef of the catalog with the spec given
AddFromSpec(built, layerDef, spec) ==
  IF spec.threw THEN [threw |-> TRUE, layers |-> built.layers]
  ELSE [threw |-> FALSE, layers |-> addLayer(layerDef.id, spec, built.layers)]

\* The callback for any layerDef; an exception ends the loop
AddFromState(built, layerDef) ==
  IF built.threw \/ layerDef.id \notin DOMAIN Catalog THEN built
  ELSE AddFromSpec(built, layerDef, getLayerSpec(layerDef.attributes))

\* layers.reverse().forEach(...) over the layerDefs from index n to the last
RECURSIVE CreateFrom(_, _)
CreateFrom(lstates, n) ==
  IF n > Len(lstates) THEN [threw |-> FALSE, layers |-> <<>>]
  ELSE AddFromState(CreateFrom(lstates, n + 1), lstates[n])

\* createLayerArrayFromState(layers, config); threw tells that it raised an
\* exception
createLayerArrayFromState(lstates) == CreateFrom(lstates, 1)

\* googleTagManager.pushEvent is called with the id of every layer state read
PushedEvents(lstates) == [n \in 1..Len(lstates) |-> lstates[n].id]

\* A faulty catch block that hands the exception on
Rethrow(outcome) == outcome

\* The catch block of layersParse12
CatchAndReset(outcome) ==
  IF outcome.threw THEN [threw |-> FALSE, layers |-> resetLayers] ELSE outcome

\* layersParse12(stateObj, config); threw tells that the caller gets an
\* exception
layersParse12(str) == CatchAndReset(createLayerArrayFromState(LayerStatesOf(str)))

\* config.redirects.layers: an id of an earlier catalog and the id it became
Redirects == (<<"old">> :> <<"b">>)

\* config.redirects.layers[id] || id
Redirect(id) == IF id \in DOMAIN Redirects THEN Redirects[id] ELSE id

\* str.split(/[~,.]/)
SplitV11(str) ==
  Split([n \in 1..Len(str) |->
           IF str[n] \in {"~", ",", "."} THEN "," ELSE str[n]], ",")

\* id.startsWith('!')
StartsWithBang(id) == id # <<>> /\ id[1] = "!"

\* The id looked up in the catalog: the token without its leading '!',
\* redirected
CatalogId(token) ==
  Redirect(IF StartsWithBang(token) THEN Tail(token) ELSE token)

\* A layer state that never holds the hidden attribute
VisibleLayerState(token) == [id |-> CatalogId(token), attributes |-> <<>>]

\* lstate: attributes holds hidden when the token started with '!'
LayerStateV11(token) ==
  [id |-> CatalogId(token),
   attributes |-> IF StartsWithBang(token)
                  THEN <<[id |-> <<"hidden">>, value |-> TrueValue]>>
                  ELSE <<>>]

\* The callback of lodashEach(ids, ...) in layersParse11; read holds the
\* layer states pushed and the ids handed to googleTagManager.pushEvent
ReadToken(read, token) ==
  IF token = <<"baselayers">> \/ token = <<"overlays">> THEN read
  ELSE IF CatalogId(token) \notin DOMAIN Catalog THEN read
  ELSE [layers |-> Append(read.layers, LayerStateV11(token)),
        events |-> Append(read.events, CatalogId(token))]

\* lodashEach(ids, ...) over the first n tokens
RECURSIVE EachToken(_, _)
EachToken(ids, n) ==
  IF n = 0 THEN [layers |-> <<>>, events |-> <<>>]
  ELSE ReadToken(EachToken(ids, n - 1), ids[n])

\* layersParse11(str, config): the layer array and the events pushed
layersParse11(str) ==
  [outcome |-> createLayerArrayFromState(
                 EachToken(SplitV11(str), Len(SplitV11(str))).layers),
   events |-> EachToken(SplitV11(str), Len(SplitV11(str))).events]

\* A band combination, and the word
\* encodeURIComponent(JSON.stringify(bandCombo)) makes of it once its
\* parentheses are replaced
RGBCombo == << <<"B04">>, <<"B03">>, <<"B02">> >>

EncodedBandCombo(bandCombo) == <<"%5B%22B04%22%2C%22B03%22%2C%22B02%22%5D">>

\* getPaletteAttributeArray(def.id, palettes, state) of modules/palettes/util
\* for a layer whose only palette setting is a custom palette
getPaletteAttributeArray(layer) ==
  IF layer.custom # <<>>
  THEN <<[id |-> <<"palette">>, truthy |-> TRUE, text |-> Join(layer.custom, ";")]>>
  ELSE <<>>

\* def.palette && (def.custom || def.min || def.max || def.squash || def.disabled)
HasPaletteAttributes(layer) ==
  /\ Catalog[layer.id].palette
  /\ \/ layer.custom # <<>> \/ layer.min # <<>> \/ layer.max # <<>>
     \/ layer.squash # <<>> \/ layer.disabled # <<>>

\* Attributes with the opacity in front of hidden
OpacityFirstAttributes(layer) ==
  (IF layer.opacity < 100
   THEN <<[id |-> <<"opacity">>, truthy |-> layer.opacity # 0,
           text |-> NumberToString(layer.opacity)]>>
   ELSE <<>>)
  \o (IF ~layer.visible
      THEN <<[id |-> <<"hidden">>, truthy |-> FALSE, text |-> <<>>]>> ELSE <<>>)
  \o (IF layer.bandCombo # <<>>
      THEN <<[id |-> <<"bandCombo">>, truthy |-> TRUE,
              text |-> EncodedBandCombo(layer.bandCombo)]>>
      ELSE <<>>)

\* item.attributes of serializeLayers; truthy tells whether the value is a
\* truthy one and text is the value as a template literal prints it
ItemAttributes(layer) ==
  (IF ~layer.visible
   THEN <<[id |-> <<"hidden">>, truthy |-> FALSE, text |-> <<>>]>> ELSE <<>>)
  \o (IF layer.opacity < 100
      THEN <<[id |-> <<"opacity">>, truthy |-> layer.opacity # 0,
              text |-> NumberToString(layer.opacity)]>>
      ELSE <<>>)
  \o (IF layer.bandCombo # <<>>
      THEN <<[id |-> <<"bandCombo">>, truthy |-> TRUE,
              text |-> EncodedBandCombo(layer.bandCombo)]>>
      ELSE <<>>)
  \o (IF HasPaletteAttributes(layer) THEN getPaletteAttributeArray(layer) ELSE <<>>)

\* `${attribute.id}=${attribute.value}` or attribute.id
AttributeForURL(attribute) ==
  IF attribute.truthy THEN attribute.id \o <<"=">> \o attribute.text
  ELSE attribute.id

\* attributes.join(',')
AttributesForURL(attributes) ==
  Join([n \in 1..Len(attributes) |-> AttributeForURL(attributes[n])], ",")

\* util.appendAttributesForURL(item)
appendAttributesForURL(id, attributes) ==
  IF attributes = <<>> THEN id
  ELSE id \o <<"(">> \o AttributesForURL(attributes) \o <<")">>

\* serializeLayers(layers, state, groupName)
serializeLayers(layers) ==
  [n \in 1..Len(layers) |->
     appendAttributesForURL(layers[n].id, ItemAttributes(layers[n]))]

\* The l parameter of the permalink
LayersParameter(layers) == Join(serializeLayers(layers), ",")

-----------------------------------------------------------------------------
(* Inputs of the codec.                                                     *)

\* An active layer list holds up to MaxLayers layers, and a string typed into
\* the address bar up to MaxLexemes lexemes
MaxLayers == 2
MaxLexemes == 5

\* The states the layer id can be active in
ActiveStates(id) ==
  { [id |-> id, group |-> Catalog[id].group, visible |-> v, opacity |-> o,
     bandCombo |-> bc, custom |-> cu, min |-> <<>>, max |-> <<>>,
     squash |-> <<>>, disabled |-> <<>>, count |-> Undef] :
      v \in BOOLEAN, o \in {0, 50, 100},
      bc \in IF Catalog[id].palette THEN { <<>> } ELSE { <<>>, RGBCombo },
      cu \in IF Catalog[id].palette THEN { <<>>, << <<"red">> >> } ELSE { <<>> } }

\* Layers are active once, the overlays above the base layers
IsLayerList(layers) ==
  /\ \A m, n \in 1..Len(layers) : m # n => layers[m].id # layers[n].id
  /\ \A m, n \in 1..Len(layers) :
       (m < n /\ IsOverlay(layers[n])) => IsOverlay(layers[m])

ActiveLayerLists ==
  { layers \in UNION { [1..n -> UNION { ActiveStates(id) : id \in DOMAIN Catalog }] :
                         n \in 0..MaxLayers } : IsLayerList(layers) }

\* The lexemes of a typed string; x is no layer of the catalog
Lexemes == {"a", "x", "(", ")", ",", "=", "hidden", "disabled"}

TypedStrings == UNION { [1..n -> Lexemes] : n \in 0..MaxLexemes }

\* The layer definition of a run that resolves no dates
IdleLayer ==
  [period |-> "daily", ongoing |-> FALSE, futureTime |-> FALSE, dateRanges |-> <<>>]

InitCodec ==
  /\ tzOffset = 0
  /\ def = IdleLayer
  /\ appNow = 0
  /\ \/ /\ op = "serialize"
        /\ activeLayers \in ActiveLayerLists
        /\ permalink = <<>>
     \/ /\ op = "parse"
        /\ activeLayers = <<>>
        /\ permalink \in TypedStrings
  /\ parsed = [threw |-> FALSE, layers |-> <<>>]
  /\ events = <<>>
  /\ IdleResolver /\ IdleOverlap /\ IdleAdjust /\ IdleCall

\* The active layers are written to the permalink
SerializeLayers ==
  /\ op = "serialize"
  /\ permalink' = LayersParameter(activeLayers)
  /\ op' = "parse"
  /\ UNCHANGED <<callVars, tzOffset, def, appNow, activeLayers, parsed, events, resolverVars, overlapVars, adjustVars>>

\* The permalink is read
LayersParse12 ==
  /\ op = "parse"
  /\ parsed' = layersParse12(permalink)
  /\ events' = PushedEvents(LayerStatesOf(permalink))
  /\ op' = "parsed"
  /\ UNCHANGED <<callVars, tzOffset, def, appNow, activeLayers, permalink, resolverVars, overlapVars, adjustVars>>

NextCodec == SerializeLayers \/ LayersParse12

SpecCodec == InitCodec /\ [][NextCodec]_vars

\* A v1.1 string holds at most MaxLexemesV11 lexemes
MaxLexemesV11 == 4

\* The lexemes of a v1.1 string; x is no layer of the catalog, old is
\* redirected to b
LexemesV11 == {"a", "b", "c", "x", "old", "!", ",", "~", ".", "overlays"}

TypedStringsV11 == UNION { [1..n -> LexemesV11] : n \in 0..MaxLexemesV11 }

InitParse11 ==
  /\ tzOffset = 0
  /\ def = IdleLayer
  /\ appNow = 0
  /\ op = "parse11"
  /\ activeLayers = <<>>
  /\ permalink \in TypedStringsV11
  /\ parsed = [threw |-> FALSE, layers |-> <<>>]
  /\ events = <<>>
  /\ IdleResolver /\ IdleOverlap /\ IdleAdjust /\ IdleCall

\* The v1.1 permalink is read
LayersParse11 ==
  /\ op = "parse11"
  /\ parsed' = layersParse11(permalink).outcome
  /\ events' = layersParse11(permalink).events
  /\ op' = "parsed11"
  /\ UNCHANGED <<callVars, tzOffset, def, appNow, activeLayers, permalink, resolverVars, overlapVars, adjustVars>>

NextParse11 == LayersParse11

SpecParse11 == InitParse11 /\ [][NextParse11]_vars

-----------------------------------------------------------------------------
(* Properties of the codec.                                                 *)

\* The permalink has been read
Parsed == op = "parsed"

\* The permalink read is the one written for a non-empty active layer list
ReadBack == Parsed /\ activeLayers # <<>> /\ permalink = LayersParameter(activeLayers)

\* The two layers have the same id, visibility, opacity, band combination
\* and custom palette
SameLayerState(l, r) ==
  /\ l.id = r.id
  /\ l.visible = r.visible
  /\ l.opacity = r.opacity
  /\ l.bandCombo = r.bandCombo
  /\ l.custom = r.custom

\* C3: reading with layersParse12 the string written by serializeLayers
\* restores every active layer with its id, visibility, opacity, band
\* combination and palette override, and no other layer.
C3_RoundTrip ==
  ReadBack =>
    /\ ~parsed.threw
    /\ Len(parsed.layers) = Len(activeLayers)
    /\ \A n \in 1..Len(activeLayers) :
         \E m \in 1..Len(parsed.layers) :
           SameLayerState(parsed.layers[m], activeLayers[n])

\* An attribute of a layer of the catalog is a bare disabled, bands, palette
\* or style key: reading it splits the value true
SplitsBareKey(str) ==
  \E n \in 1..Len(LayerStatesOf(str)) :
    /\ LayerStatesOf(str)[n].id \in DOMAIN Catalog
    /\ \E k \in 1..Len(LayerStatesOf(str)[n].attributes) :
         /\ LayerStatesOf(str)[n].attributes[k].id \in SplitIds
         /\ LayerStatesOf(str)[n].attributes[k].value = TrueValue

\* C5: layersParse12 hands no exception to its caller, and when reading the
\* string raises one (a bare disabled, bands, palette or style key of a
\* catalog layer) the result is the default layer set of resetLayers.
C5_ExceptionsCaught ==
  Parsed =>
    /\ ~parsed.threw
    /\ SplitsBareKey(permalink) => parsed.layers = resetLayers

\* A string with a bare disabled key next to a further layer has been read
C5_BareKeyRead ==
  /\ Parsed
  /\ SplitsBareKey(permalink)
  /\ Len(LayerStatesOf(permalink)) = 2
  /\ parsed.layers = resetLayers

\* A "(" follows a layer id and no ")" follows it
UnbalancedParenthesis(str) ==
  \E i \in 2..Len(str) :
    /\ str[i] = "("
    /\ str[i - 1] \notin {"(", ")", ",", "=", ";"}
    /\ \A j \in (i + 1)..Len(str) : str[j] # ")"

\* C6: for a string with an unbalanced parenthesis layersParse12 returns the
\* default layer set.
C6_UnbalancedGivesDefaults ==
  (Parsed /\ UnbalancedParenthesis(permalink)) => parsed.layers = resetLayers

-----------------------------------------------------------------------------
(* serializeLayers called on its own: the attribute lists it builds and the *)
(* strings it returns.                                                      *)

InitSerialize ==
  /\ tzOffset = 0
  /\ def = IdleLayer
  /\ appNow = 0
  /\ op = "items"
  /\ arg \in ActiveLayerLists
  /\ returned = <<>>
  /\ IdleResolver /\ IdleOverlap /\ IdleAdjust /\ IdleCodec

\* The layers are serialized one by one
SerializeItems ==
  /\ op = "items"
  /\ returned' = [attributes |-> [n \in 1..Len(arg) |-> ItemAttributes(arg[n])],
                  strings |-> serializeLayers(arg)]
  /\ op' = "serialized"
  /\ UNCHANGED <<arg, tzOffset, def, appNow, resolverVars, overlapVars, adjustVars, codecVars>>

NextSerialize == SerializeItems

SpecSerialize == InitSerialize /\ [][NextSerialize]_vars

-----------------------------------------------------------------------------
(* getLayerSpec called on its own with an attribute list.                   *)

\* An attribute list holds at most MaxAttributes attributes
MaxAttributes == 2

\* The ids of the attributes; foo is an id getLayerSpec does not read
AttributeIds ==
  { <<"hidden">>, <<"opacity">>, <<"min">>, <<"max">>, <<"disabled">>,
    <<"palette">>, <<"count">>, <<"foo">> }

\* The values of the attributes: true for a bare key, or the text behind =
AttributeValues ==
  { TrueValue, StringValue(<<"0.5">>), StringValue(<<"2">>),
    StringValue(<<"-1">>), StringValue(<<"x">>),
    StringValue(<<"1", ";", "x", ";", "2">>),
    StringValue(<<"1", ";", ";", "2">>) }

AttributeLists ==
  UNION { [1..n -> [id : AttributeIds, value : AttributeValues]] :
            n \in 0..MaxAttributes }

InitLayerSpec ==
  /\ tzOffset = 0
  /\ def = IdleLayer
  /\ appNow = 0
  /\ op = "spec"
  /\ arg \in AttributeLists
  /\ returned = <<>>
  /\ IdleResolver /\ IdleOverlap /\ IdleAdjust /\ IdleCodec

\* The attributes of a layer state are decoded
GetLayerSpec ==
  /\ op = "spec"
  /\ returned' = getLayerSpec(arg)
  /\ op' = "decoded"
  /\ UNCHANGED <<arg, tzOffset, def, appNow, resolverVars, overlapVars, adjustVars, codecVars>>

NextLayerSpec == GetLayerSpec

SpecLayerSpec == InitLayerSpec /\ [][NextLayerSpec]_vars

-----------------------------------------------------------------------------
(* The overlay groups.  allGroupsMap is a plain object: it is modelled by   *)
(* the sequence of its own properties in the order Object.keys lists them,  *)
(* the array indices in ascending order before the other names.             *)

\* The number a property name stands for when it is an array index, else -1
ArrayIndex(name) ==
  CASE name = "2" -> 2
    [] name = "10" -> 10
    [] OTHER -> -1

\* Names every object inherits from Object.prototype
InheritedNames == {"constructor"}

\* allGroupsMap[layergroup] = [id]: an array index goes behind the smaller
\* array indices, any other name behind all properties
DefineGroup(entries, name, id) ==
  IF ArrayIndex(name) < 0
  THEN Append(entries, [groupName |-> name, layers |-> <<id>>])
  ELSE InsertLayer(entries,
                   Cardinality({ n \in 1..Len(entries) :
                                   /\ ArrayIndex(entries[n].groupName) >= 0
                                   /\ ArrayIndex(entries[n].groupName) < ArrayIndex(name) }),
                   [groupName |-> name, layers |-> <<id>>])

\* allGroupsMap[layergroup].push(id)
PushToGroup(entries, name, id) ==
  [n \in 1..Len(entries) |->
     IF entries[n].groupName = name
     THEN [entries[n] EXCEPT !.layers = Append(@, id)]
     ELSE entries[n]]

\* The callback of layers.forEach in getOverlayGroups; an inherited name
\* reads a value that has no push method, which raises a TypeError
AddToGroups(map, layer) ==
  IF map.threw \/ layer.group # "overlays" THEN map
  ELSE IF \E n \in 1..Len(map.entries) : map.entries[n].groupName = layer.layergroup
  THEN [map EXCEPT !.entries = PushToGroup(@, layer.layergroup, layer.id)]
  ELSE IF layer.layergroup \in InheritedNames
  THEN [map EXCEPT !.threw = TRUE]
  ELSE [map EXCEPT !.entries = DefineGroup(@, layer.layergroup, layer.id)]

\* layers.forEach(...) over the first n layers
RECURSIVE AllGroupsMap(_, _)
AllGroupsMap(layers, n) ==
  IF n = 0 THEN [threw |-> FALSE, entries |-> <<>>]
  ELSE AddToGroups(AllGroupsMap(layers, n - 1), layers[n])

\* A lookup that never finds a previous group
NeverCollapsed(prevGroups, groupName) == FALSE

\* prevGroup ? prevGroup.collapsed : false, prevGroup being the first group
\* of prevGroups with the name
CollapsedBefore(prevGroups, groupName) ==
  IF \E n \in 1..Len(prevGroups) : prevGroups[n].groupName = groupName
  THEN prevGroups[CHOOSE n \in 1..Len(prevGroups) :
                    /\ prevGroups[n].groupName = groupName
                    /\ \A m \in 1..(n - 1) : prevGroups[m].groupName # groupName].collapsed
  ELSE FALSE

\* Object.keys(allGroupsMap).map(...)
GroupsOfMap(map, prevGroups) ==
  [threw |-> map.threw,
   groups |-> IF map.threw THEN <<>>
              ELSE [n \in 1..Len(map.entries) |->
                      [groupName |-> map.entries[n].groupName,
                       layers |-> map.entries[n].layers,
                       collapsed |-> CollapsedBefore(prevGroups,
                                                     map.entries[n].groupName)]]]

\* getOverlayGroups(layers, prevGroups); threw tells that it raised an
\* exception
getOverlayGroups(layers, prevGroups) ==
  GroupsOfMap(AllGroupsMap(layers, Len(layers)), prevGroups)

-----------------------------------------------------------------------------
(* Inputs of getOverlayGroups and its calls.                                *)

\* A layer list holds at most MaxGroupLayers layers, a previous group list
\* at most MaxPrevGroups groups
MaxGroupLayers == 3
MaxPrevGroups == 2

\* layergroup names of the overlays
LayerGroupNames == {"Fires", "Ash", "2", "10", "constructor"}

\* The group and layergroup of a layer
GroupPlaces ==
  { <<"baselayers", "Base">> } \cup { <<"overlays", g>> : g \in LayerGroupNames }

\* The layer lists: the n-th layer has the id n
GroupedLayerLists ==
  UNION { { [n \in 1..k |-> [id |-> n, group |-> places[n][1],
                             layergroup |-> places[n][2]]] :
              places \in [1..k -> GroupPlaces] } : k \in 0..MaxGroupLayers }

PrevGroupLists ==
  UNION { [1..k -> [groupName : {"Fires", "2"}, layers : { <<>> },
                    collapsed : BOOLEAN]] : k \in 0..MaxPrevGroups }

InitGroups ==
  /\ tzOffset = 0
  /\ def = IdleLayer
  /\ appNow = 0
  /\ op = "group"
  /\ arg \in [layers : GroupedLayerLists, prevGroups : PrevGroupLists]
  /\ returned = <<>>
  /\ IdleResolver /\ IdleOverlap /\ IdleAdjust /\ IdleCodec

\* The overlay groups are computed
GetOverlayGroups ==
  /\ op = "group"
  /\ returned' = getOverlayGroups(arg.layers, arg.prevGroups)
  /\ op' = "grouped"
  /\ UNCHANGED <<arg, tzOffset, def, appNow, resolverVars, overlapVars, adjustVars, codecVars>>

\* The overlay groups are computed again from the same layers and the
\* groups returned before
GetOverlayGroupsAgain ==
  /\ op = "grouped"
  /\ ~returned.threw
  /\ arg' = [arg EXCEPT !.prevGroups = returned.groups]
  /\ returned' = getOverlayGroups(arg.layers, returned.groups)
  /\ op' = "regrouped"
  /\ UNCHANGED <<tzOffset, def, appNow, resolverVars, overlapVars, adjustVars, codecVars>>

NextGroups == GetOverlayGroups \/ GetOverlayGroupsAgain

SpecGroups == InitGroups /\ [][NextGroups]_vars

-----------------------------------------------------------------------------
(* Properties of the v1.1 codec.                                            *)

\* The v1.1 permalink has been read
Parsed11 == op = "parsed11"

\* The token is neither a group name nor the id of a layer the catalog lacks
Survives(token) ==
  /\ token # <<"baselayers">> /\ token # <<"overlays">>
  /\ CatalogId(token) \in DOMAIN Catalog

\* The tokens of str that name a layer of the catalog, as declared
Survivors(str) == SelectSeq(SplitV11(str), Survives)

\* The place of the last surviving token that names id
LastDeclared(str, id) ==
  CHOOSE n \in 1..Len(Survivors(str)) :
    /\ CatalogId(Survivors(str)[n]) = id
    /\ \A m \in (n + 1)..Len(Survivors(str)) : CatalogId(Survivors(str)[m]) # id

\* A telemetry event was pushed for each surviving token and for no other
EventsOfSurvivors ==
  events = [n \in 1..Len(Survivors(permalink)) |-> CatalogId(Survivors(permalink)[n])]

-----------------------------------------------------------------------------
(* Properties of the overlay groups.                                        *)

\* getOverlayGroups has returned its groups
GroupsReturned == op \in {"grouped", "regrouped"} /\ ~returned.threw

\* C13: every group returned by getOverlayGroups has the collapsed flag of
\* the previous group of its name (false when there is none), and computing
\* the groups again from the same layers and the groups returned changes
\* nothing.
C13_CollapsedCarriedForward ==
  /\ GroupsReturned =>
       \A n \in 1..Len(returned.groups) :
         returned.groups[n].collapsed =
           IF \E m \in 1..Len(arg.prevGroups) :
                arg.prevGroups[m].groupName = returned.groups[n].groupName
           THEN \E m \in 1..Len(arg.prevGroups) :
                  /\ arg.prevGroups[m].groupName = returned.groups[n].groupName
                  /\ arg.prevGroups[m].collapsed
                  /\ \A k \in 1..(m - 1) :
                       arg.prevGroups[k].groupName # returned.groups[n].groupName
           ELSE FALSE
  /\ op = "regrouped" => returned.groups = arg.prevGroups

\* The groups were computed twice and a collapsed group stayed collapsed
\* next to an open one
C13_CollapsedGroupRecomputed ==
  /\ op = "regrouped"
  /\ Len(returned.groups) = 2
  /\ returned.groups[1].collapsed
  /\ ~returned.groups[2].collapsed

\* The ids of the overlays of layers with the layergroup name, as listed
IdsOfGroup(layers, name) ==
  LET InGroup(layer) == layer.group = "overlays" /\ layer.layergroup = name
      members == SelectSeq(layers, InGroup)
  IN  [n \in 1..Len(members) |-> members[n].id]

\* The place of the first overlay of layers with the layergroup name
FirstAppearance(layers, name) ==
  CHOOSE n \in 1..Len(layers) :
    /\ layers[n].group = "overlays" /\ layers[n].layergroup = name
    /\ \A m \in 1..(n - 1) :
         ~(layers[m].group = "overlays" /\ layers[m].layergroup = name)

\* C14: getOverlayGroups returns one group for each layergroup of the
\* overlays, holding the ids of exactly the overlays of that layergroup in
\* the order of the list, and the groups are ordered by the first
\* appearance of their layergroup in the list, whatever the names.
C14_PartitionInFirstAppearanceOrder ==
  op = "grouped" =>
    /\ ~returned.threw
    /\ { returned.groups[n].groupName : n \in 1..Len(returned.groups) }
         = { arg.layers[n].layergroup :
               n \in { k \in 1..Len(arg.layers) : arg.layers[k].group = "overlays" } }
    /\ \A n \in 1..Len(returned.groups) :
         returned.groups[n].layers = IdsOfGroup(arg.layers, returned.groups[n].groupName)
    /\ \A m, n \in 1..Len(returned.groups) :
         m < n => FirstAppearance(arg.layers, returned.groups[m].groupName)
                    < FirstAppearance(arg.layers, returned.groups[n].groupName)

-----------------------------------------------------------------------------
(* Properties of getLayerSpec.                                              *)

\* getLayerSpec has returned a spec
Decoded == op = "decoded" /\ ~returned.threw

\* The attributes of the list with the id, as listed
AttributesNamed(attributes, id) ==
  LET Named(attr) == attr.id = id
  IN  SelectSeq(attributes, Named)

\* The number the text starts with lies in [0, 1], below or above it
OpacityOfText(str) ==
  IF str = <<>> \/ str[1] \notin NumberWords THEN 0
  ELSE IF WordValue(str[1]) < 0 THEN 0
  ELSE IF WordValue(str[1]) > 100 THEN 100
  ELSE WordValue(str[1])

\* C15: the opacity decoded by getLayerSpec lies in [0, 1]: it is 1 without
\* an opacity attribute, and else the value of the last opacity attribute
\* clamped to [0, 1], or 0 when that value is no number.
C15_OpacityClamped ==
  Decoded =>
    /\ returned.opacity >= 0 /\ returned.opacity <= 100
    /\ returned.opacity =
         IF AttributesNamed(arg, <<"opacity">>) = <<>> THEN 100
         ELSE IF Last(AttributesNamed(arg, <<"opacity">>)).value.bare THEN 0
         ELSE OpacityOfText(Last(AttributesNamed(arg, <<"opacity">>)).value.str)

\* Two opacity attributes were decoded, the first too large and the second
\* no number
C15_LastOpacityDecided ==
  /\ Decoded
  /\ Len(AttributesNamed(arg, <<"opacity">>)) = 2
  /\ arg[1].value = StringValue(<<"2">>)
  /\ arg[2].value = StringValue(<<"x">>)
  /\ returned.opacity = 0

\* The min or max list decoded from a text has a slot for each of its
\* segments and every number at the place of its segment
SlotPerSegment(decoded, str) ==
  /\ Len(decoded) = Len(Split(str, ";"))
  /\ \A n \in 1..Len(Split(str, ";")) :
       parseFloat(Split(str, ";")[n]) # NaN =>
         (n <= Len(decoded) /\ decoded[n] = parseFloat(Split(str, ";")[n]))

\* The attributes of the list with the id and a text as value
TextsNamed(attributes, id) ==
  LET NamedText(attr) == attr.id = id /\ ~attr.value.bare
  IN  SelectSeq(attributes, NamedText)

\* C16: the min and max lists decoded by getLayerSpec have one slot for each
\* semicolon-separated segment of the attribute, an undefined slot where
\* the segment is no number, and every number at the place of its segment.
C16_SlotPerSegment ==
  Decoded =>
    /\ TextsNamed(arg, <<"min">>) # <<>> =>
         SlotPerSegment(returned.min, Last(TextsNamed(arg, <<"min">>)).value.str)
    /\ TextsNamed(arg, <<"max">>) # <<>> =>
         SlotPerSegment(returned.max, Last(TextsNamed(arg, <<"max">>)).value.str)

\* The attribute has an id that getLayerSpec reads
IsKnown(attr) == attr.id \in KnownIds

\* C17: attributes with an id getLayerSpec does not read are ignored: the
\* outcome for an attribute list is the outcome for the list without them,
\* and a list that raises no exception without them raises none with them.
C17_UnknownIdsIgnored ==
  op = "decoded" => returned = getLayerSpec(SelectSeq(arg, IsKnown))

\* An unknown attribute was decoded in front of an opacity
C17_UnknownBeforeOpacity ==
  /\ Decoded
  /\ Len(arg) = 2
  /\ arg[1].id = <<"foo">>
  /\ arg[2] = [id |-> <<"opacity">>, value |-> StringValue(<<"0.5">>)]
  /\ returned.opacity = 50

-----------------------------------------------------------------------------
(* Properties of serializeLayers.                                           *)

\* The places of the attributes with the id
PlacesOf(attributes, id) == { k \in 1..Len(attributes) : attributes[k].id = id }

\* The layer has neither a band combination nor palette attributes
IsPlain(layer) == layer.bandCombo = <<>> /\ ~HasPaletteAttributes(layer)

\* C18: for each layer of the list, in its order, serializeLayers emits a
\* hidden attribute exactly when the layer is not visible and an opacity
\* attribute carrying the opacity exactly when the opacity is below 1,
\* hidden in front of opacity; a visible, fully opaque layer without other
\* configuration has an empty attribute list.
C18_HiddenAndOpacityEmitted ==
  op = "serialized" =>
    /\ Len(returned.attributes) = Len(arg)
    /\ Len(returned.strings) = Len(arg)
    /\ \A n \in 1..Len(arg) :
         /\ SubSeq(returned.strings[n], 1, Len(arg[n].id)) = arg[n].id
         /\ Cardinality(PlacesOf(returned.attributes[n], <<"hidden">>))
              = IF arg[n].visible THEN 0 ELSE 1
         /\ Cardinality(PlacesOf(returned.attributes[n], <<"opacity">>))
              = IF arg[n].opacity < 100 THEN 1 ELSE 0
         /\ \A k \in PlacesOf(returned.attributes[n], <<"opacity">>) :
              /\ returned.attributes[n][k].text = NumberToString(arg[n].opacity)
              /\ \A j \in PlacesOf(returned.attributes[n], <<"hidden">>) : j < k
         /\ (arg[n].visible /\ arg[n].opacity = 100 /\ IsPlain(arg[n])) =>
              returned.attributes[n] = <<>>

\* A hidden half-transparent layer was serialized in front of a plain one
C18_HiddenTranslucentSerialized ==
  /\ op = "serialized"
  /\ Len(arg) = 2
  /\ ~arg[1].visible /\ arg[1].opacity = 50
  /\ arg[2].visible /\ arg[2].opacity = 100 /\ IsPlain(arg[2])
  /\ Len(returned.attributes[1]) >= 2
  /\ returned.attributes[2] = <<>>

-----------------------------------------------------------------------------
(* The three adjustment passes applied to one layer.  The layer and its     *)
(* ranges are objects that the passes change in place: arg.layer holds the  *)
(* layer's properties, an absent property being absent from its DOMAIN;     *)
(* layer.dateRanges and availability.historicalRanges are arrays of         *)
(* references into arg.heap, the range objects.  A date string is the       *)
(* instant it spells, in minutes.                                           *)

\* obj has the property key
Has(obj, key) == key \in DOMAIN obj

\* obj[key] = value
With(obj, key, value) ==
  [k \in DOMAIN obj \cup {key} |-> IF k = key THEN value ELSE obj[k]]

\* arr.reverse()
Reversed(arr) == [n \in 1..Len(arr) |-> arr[Len(arr) + 1 - n]]

\* The range objects the references point to
Deref(refs, heap) == [n \in 1..Len(refs) |-> heap[refs[n]]]

\* format('YYYY-MM-DDThh:mm:ss') of the UTC fields: hh is the hour of the
\* 12-hour clock
FormatHh(f) ==
  UTCDate(f.year, f.month, f.day, IF f.hour % 12 = 0 THEN 12 ELSE f.hour % 12, f.minute)

\* adjustDate(days) at the time now
adjustDate(days, now) == FormatHh(UTCFields(now - days * 24 * 60))

\* Array.isArray(x) && x.length for the property key of obj
IsFilledArray(obj, key) == Has(obj, key) /\ Len(obj[key]) > 0

\* Lines 1409-1415: the first range and the layer start at the adjusted date
RewriteFirstRange(o, adjusted) ==
  IF IsFilledArray(o.layer, "dateRanges")
  THEN [o EXCEPT !.heap[o.layer.dateRanges[1]].startDate = adjusted,
                 !.layer.startDate = adjusted]
  ELSE o

\* historicalRanges.reverse().forEach((range) => layer.dateRanges.unshift(range))
\* with the array reversed in place; unshift on an absent dateRanges throws
UnshiftHistorical(o, historicalRanges) ==
  IF Has(o.layer, "dateRanges")
  THEN [o EXCEPT !.layer.availability.historicalRanges = Reversed(historicalRanges),
                 !.layer.dateRanges = historicalRanges \o o.layer.dateRanges]
  ELSE [o EXCEPT !.layer.availability.historicalRanges = Reversed(historicalRanges),
                 !.threw = TRUE]

\* Lines 1417-1424
PrependHistorical(o, adjusted) ==
  IF IsFilledArray(o.layer.availability, "historicalRanges")
  THEN UnshiftHistorical(
         [o EXCEPT !.layer.startDate =
                      o.heap[o.layer.availability.historicalRanges[1]].startDate],
         o.layer.availability.historicalRanges)
  ELSE [o EXCEPT !.layer.startDate = adjusted]

\* applyDateAdjustment(layer) of adjustStartDates at the time now
applyStartDateAdjustment(o, now) ==
  IF ~Has(o.layer, "availability") THEN o
  ELSE CHOOSE r \in
         { PrependHistorical(RewriteFirstRange(o, adjusted), adjusted) :
             adjusted \in { adjustDate(o.layer.availability.rollingWindow, now) } } : TRUE

\* getFutureLayerEndDate(layer): now moved on by the layer's futureTime, here
\* in days
getFutureLayerEndDate(layer, now) == now + layer.futureTime * MinutesPerDay

\* Lines 1557-1560: dateRanges.length of an absent dateRanges throws
RewriteLastRange(o, futureEndDate) ==
  IF ~Has(o.layer, "dateRanges") THEN [o EXCEPT !.threw = TRUE]
  ELSE IF Len(o.layer.dateRanges) > 0
  THEN [o EXCEPT !.heap[o.layer.dateRanges[Len(o.layer.dateRanges)]].endDate = futureEndDate]
  ELSE o

\* applyDateAdjustment(layer) of adjustEndDates at the time now; an absent
\* futureTime is 0
applyEndDateAdjustment(o, now) ==
  IF o.layer.futureTime = 0 THEN o
  ELSE RewriteLastRange(
         [o EXCEPT !.layer.endDate = getFutureLayerEndDate(o.layer, now)],
         getFutureLayerEndDate(o.layer, now))

\* layer.dateRanges = dateRangesModified: the array is a new one of new
\* range objects
AssignRanges(o, dateRangesModified) ==
  [o EXCEPT !.heap = o.heap \o dateRangesModified,
            !.layer.dateRanges =
               [n \in 1..Len(dateRangesModified) |-> Len(o.heap) + n]]

\* applyDateRangeAdjustment(layer) of adjustActiveDateRanges on the layer
\* object: !dateRanges is one of the failConditions
applyActiveRangeAdjustment(o, now) ==
  IF ~o.layer.ongoing \/ ~Has(o.layer, "dateRanges") \/ o.layer.period = "subdaily"
  THEN o
  ELSE AssignRanges(o, applyDateRangeAdjustment(
                         [ongoing |-> o.layer.ongoing, period |-> o.layer.period,
                          dateRanges |-> Deref(o.layer.dateRanges, o.heap)], now))

\* What a caller reads from the layer: its dates, its ranges and its
\* historical ranges, an absent array read as none
LayerDates(o) ==
  [startDate |-> o.layer.startDate,
   endDate |-> o.layer.endDate,
   hasDateRanges |-> Has(o.layer, "dateRanges"),
   dateRanges |-> IF Has(o.layer, "dateRanges")
                  THEN Deref(o.layer.dateRanges, o.heap) ELSE <<>>,
   historicalRanges |->
     IF Has(o.layer, "availability") /\ Has(o.layer.availability, "historicalRanges")
     THEN Deref(o.layer.availability.historicalRanges, o.heap) ELSE <<>>]

\* The most declared and the most historical ranges of a layer
MaxDeclared == 2
MaxHistorical == 2

\* The range objects of a layer's configuration, a year each: the historical
\* ranges end with 2019, the declared ranges begin with 2020, and the last
\* one is of every second day
ConfiguredRanges ==
  [k \in 1..(MaxHistorical + MaxDeclared) |->
     [startDate |-> UTCDate(2019 - MaxHistorical + k, 0, 1, 0, 0),
      endDate |-> UTCDate(2019 - MaxHistorical + k, 11, 31, 0, 0),
      dateInterval |-> IF k = MaxHistorical + MaxDeclared THEN 2 ELSE 1]]

\* The first n references from the reference after base
Refs(base, n) == [k \in 1..n |-> base + k]

\* availability: absent, with a rolling window alone, or with historical
\* ranges too
Availabilities ==
  { [rollingWindow |-> days] : days \in {1, 30} }
  \cup { [rollingWindow |-> days, historicalRanges |-> Refs(0, n)] :
           days \in {1, 30}, n \in 0..MaxHistorical }

\* The layer without dateRanges and without availability
BareLayers ==
  { [id |-> "a", startDate |-> UTCDate(2020, 0, 1, 0, 0),
     endDate |-> UTCDate(2021, 5, 1, 0, 0),
     ongoing |-> ongoing, period |-> period, futureTime |-> futureTime] :
      ongoing \in BOOLEAN, period \in {"daily", "subdaily"}, futureTime \in {0, 3} }

WithDateRanges(layers) ==
  layers \cup { With(layer, "dateRanges", Refs(MaxHistorical, n)) :
                  layer \in layers, n \in 0..MaxDeclared }

WithAvailability(layers) ==
  layers \cup { With(layer, "availability", a) : layer \in layers, a \in Availabilities }

ConfiguredLayers == WithAvailability(WithDateRanges(BareLayers))

\* The times of the passes: a morning and an afternoon
PassNows == { UTCDate(2021, 5, 15, 9, 30), UTCDate(2021, 5, 15, 15, 30) }

InitPasses ==
  /\ tzOffset = 0
  /\ def = IdleLayer
  /\ appNow \in PassNows
  /\ op \in {"start", "end", "active"}
  /\ \E layer \in ConfiguredLayers :
       arg = [layer |-> layer, heap |-> ConfiguredRanges, threw |-> FALSE]
  /\ returned = <<LayerDates(arg)>>
  /\ IdleResolver /\ IdleOverlap /\ IdleAdjust /\ IdleCodec

\* adjustStartDates is applied to the layer
AdjustStartDates ==
  /\ op = "start"
  /\ arg' = applyStartDateAdjustment(arg, appNow)
  /\ returned' = Append(returned, LayerDates(arg'))
  /\ op' = "started"
  /\ UNCHANGED <<tzOffset, def, appNow, resolverVars, overlapVars, adjustVars, codecVars>>

\* adjustStartDates is applied again at the same time, unless the first
\* call threw
AdjustStartDatesAgain ==
  /\ op = "started"
  /\ ~arg.threw
  /\ arg' = applyStartDateAdjustment(arg, appNow)
  /\ returned' = Append(returned, LayerDates(arg'))
  /\ op' = "restarted"
  /\ UNCHANGED <<tzOffset, def, appNow, resolverVars, overlapVars, adjustVars, codecVars>>

\* adjustEndDates is applied to the layer
AdjustEndDates ==
  /\ op = "end"
  /\ arg' = applyEndDateAdjustment(arg, appNow)
  /\ returned' = Append(returned, LayerDates(arg'))
  /\ op' = "ended"
  /\ UNCHANGED <<tzOffset, def, appNow, resolverVars, overlapVars, adjustVars, codecVars>>

\* adjustActiveDateRanges is applied to the layer
AdjustActiveRanges ==
  /\ op = "active"
  /\ arg' = applyActiveRangeAdjustment(arg, NowDate)
  /\ returned' = Append(returned, LayerDates(arg'))
  /\ op' = "activated"
  /\ UNCHANGED <<tzOffset, def, appNow, resolverVars, overlapVars, adjustVars, codecVars>>

NextPasses ==
  AdjustStartDates \/ AdjustStartDatesAgain \/ AdjustEndDates \/ AdjustActiveRanges

SpecPasses == InitPasses /\ [][NextPasses]_vars

-----------------------------------------------------------------------------
(* Properties of the adjustment passes.                                     *)

\* C19: for a fixed now, a second adjustStartDates leaves the layer's
\* startDate, its dateRanges and its historicalRanges as the first left them.
C19_StartDatesIdempotent ==
  op = "restarted" =>
    /\ returned[3].startDate = returned[2].startDate
    /\ returned[3].dateRanges = returned[2].dateRanges
    /\ returned[3].historicalRanges = returned[2].historicalRanges

\* The layer's dateRanges are absent or empty
MissingRanges(dates) == dates.dateRanges = <<>>

\* C20: on a layer whose dateRanges is absent or empty, adjustStartDates
\* with availability set, adjustActiveDateRanges and adjustEndDates with
\* futureTime set complete without an exception and leave the layer's
\* startDate, endDate and dateRanges unchanged.
C20_PassesSkipMissingRanges ==
  (op \in {"started", "ended", "activated"} /\ MissingRanges(returned[1])) =>
    /\ ~arg.threw
    /\ returned[2].startDate = returned[1].startDate
    /\ returned[2].endDate = returned[1].endDate
    /\ returned[2].hasDateRanges = returned[1].hasDateRanges
    /\ returned[2].dateRanges = returned[1].dateRanges

-----------------------------------------------------------------------------
(* adjustActiveDateRanges called on its own: arg is the layer as declared,  *)
(* returned the dateRanges the call leaves in it.                           *)

InitExtend ==
  /\ op = "extend"
  /\ tzOffset = 0
  /\ def = IdleLayer
  /\ \E period \in Periods \cup {"subdaily"} : \E ongoing \in BOOLEAN :
       \E rs \in AdjustInputs :
         arg = [period |-> period, ongoing |-> ongoing, futureTime |-> FALSE,
                dateRanges |-> rs]
  /\ returned = <<>>
  /\ appNow \in AdjustNows
  /\ appNowMs \in {0, 500}
  /\ firstAdjusted = <<>>
  /\ IdleResolver /\ IdleOverlap /\ IdleCodec

\* adjustActiveDateRanges(layers, appNow) on the one layer
ExtendActiveDateRanges ==
  /\ op = "extend"
  /\ returned' = applyDateRangeAdjustment(arg, NowDate)
  /\ op' = "extended"
  /\ UNCHANGED <<arg, def, tzOffset, appNow, adjustVars, resolverVars, overlapVars, codecVars>>

NextExtend == ExtendActiveDateRanges

SpecExtend == InitExtend /\ [][NextExtend]_vars

-----------------------------------------------------------------------------
(* Properties of adjustActiveDateRanges called on its own.                  *)

\* The date string is not later than appNow
NotAfterNow(str) == ~DateBefore(NowDate, DateOfString(str))

\* The places of the ranges the call appended
AppendedPlaces == (Len(arg.dateRanges) + 1)..Len(returned)

\* The places of the declared ranges the call replaced
ReplacedPlaces ==
  { n \in 1..Len(arg.dateRanges) : returned[n] # arg.dateRanges[n] }

\* The layer passes the failConditions and its last range is of an interval
\* above 1
IsExtensible ==
  /\ arg.ongoing /\ arg.period # "subdaily"
  /\ Last(arg.dateRanges).dateInterval > 1

\* The year the last declared range starts in
LastStartYear == getUTCFullYear(DateOfString(Last(arg.dateRanges).startDate))

\* C21: after adjustActiveDateRanges every range it replaced or appended
\* ends at or before appNow, every appended range starts before appNow, and
\* a last range that starts in appNow's year ends exactly at appNow.
C21_NeverPastNow ==
  op = "extended" =>
    /\ Len(returned) >= Len(arg.dateRanges)
    /\ \A n \in ReplacedPlaces \cup AppendedPlaces : NotAfterNow(returned[n].endDate)
    /\ \A n \in AppendedPlaces :
         DateBefore(DateOfString(returned[n].startDate), NowDate)
    /\ (IsExtensible /\ LastStartYear = getUTCFullYear(NowDate)) =>
         /\ Len(returned) = Len(arg.dateRanges)
         /\ Last(returned).endDate = toISOStringSeconds(NowDate)

\* A range that ended in an earlier year was cut at the end of that year and
\* two ranges were appended, the last of them ending at appNow
C21_CutAndExtendedToNow ==
  /\ op = "extended"
  /\ Cardinality(AppendedPlaces) = 2
  /\ ReplacedPlaces # {}
  /\ Last(returned).endDate = appNow
  /\ appNowMs > 0

\* The years strictly between the start year of the last declared range and
\* appNow's year
IntermediateYears == (LastStartYear + 1)..(getUTCFullYear(NowDate) - 1)

\* The appended ranges that start in the year
AppendedInYear(year) ==
  { n \in AppendedPlaces : getUTCFullYear(DateOfString(returned[n].startDate)) = year }

\* The range starts in appNow's year and ends at appNow
ReachesNow(range) ==
  /\ getUTCFullYear(DateOfString(range.startDate)) = getUTCFullYear(NowDate)
  /\ range.endDate = toISOStringSeconds(NowDate)

\* The start of the range moved on by a year is not before appNow
NextYearNotBeforeNow(range) ==
  ~DateBefore(setUTCFullYear(DateOfString(range.startDate),
                             getUTCFullYear(DateOfString(range.startDate)) + 1),
              NowDate)

\* C28: for an ongoing non-subdaily layer whose last declared range has an
\* interval above 1 and starts in a year not after appNow's, the resulting
\* last range starts in appNow's year and ends at appNow, or its start a
\* year on is not before appNow; every year between has one appended range
\* of its own, and the ranges before the last declared one are unchanged.
C28_CoverageReachesNow ==
  (op = "extended" /\ IsExtensible /\ LastStartYear <= getUTCFullYear(NowDate)) =>
    /\ ReachesNow(Last(returned)) \/ NextYearNotBeforeNow(Last(returned))
    /\ \A year \in IntermediateYears : Cardinality(AppendedInYear(year)) = 1
    /\ \A n \in 1..(Len(arg.dateRanges) - 1) : returned[n] = arg.dateRanges[n]

\* The last declared range starts two years before appNow's year behind an
\* earlier range, and the ranges appended reach appNow
C28_TwoYearsBridged ==
  /\ op = "extended" /\ IsExtensible
  /\ Len(arg.dateRanges) > 1
  /\ LastStartYear = getUTCFullYear(NowDate) - 2
  /\ Cardinality(AppendedInYear(getUTCFullYear(NowDate) - 1)) = 1
  /\ ReachesNow(Last(returned))

\* C30: the loop of adjustActiveDateRanges ends, and the ranges it appended
\* are no more than the years from the start year of the last declared range
\* to appNow's year.
C30_AppendedBoundedByYears ==
  op = "extended" =>
    /\ Len(returned) >= Len(arg.dateRanges)
    /\ Cardinality(AppendedPlaces) <=
         IF LastStartYear < getUTCFullYear(NowDate)
         THEN getUTCFullYear(NowDate) - LastStartYear ELSE 0

\* As many ranges were appended as there are years between, and the last
\* appended range was examined in its turn
C30_AppendedRangeReexamined ==
  /\ op = "extended"
  /\ Cardinality(AppendedPlaces) = MaxLen
  /\ getUTCFullYear(NowDate) - LastStartYear = MaxLen
  /\ ReachesNow(Last(returned))

\* The instant the given number of days before appNow
DaysBeforeNow(days) == appNow - days * MinutesPerDay

\* adjustStartDates was applied once to a layer that has historical ranges
\* and ranges of its own
HistoricalPrepended ==
  /\ op = "started"
  /\ returned[1].historicalRanges # <<>>
  /\ returned[1].dateRanges # <<>>

\* C27: for a layer with historical ranges h_0..h_n and ranges r_0..r_m,
\* after adjustStartDates the layer's startDate is h_0's start and its
\* dateRanges are h_0..h_n, r_0..r_m, with r_0's start rewritten to now
\* minus rollingWindow days and the historical ranges as they were.
C27_HistoricalThenRolling ==
  HistoricalPrepended =>
    /\ returned[2].startDate = returned[1].historicalRanges[1].startDate
    /\ returned[2].dateRanges =
         returned[1].historicalRanges
         \o [returned[1].dateRanges EXCEPT
               ![1].startDate = DaysBeforeNow(arg.layer.availability.rollingWindow)]

-----------------------------------------------------------------------------
(* The overlap detector and its caller's array.                             *)

\* C29: when dateOverlap(period, ranges) returns, the caller's array holds
\* the same ranges in the same order as before the call, each with its
\* startDate, endDate and dateInterval.
C29_RangesLeftAsGiven ==
  [][op' = "overlapped" => def'.dateRanges = def.dateRanges]_vars

-----------------------------------------------------------------------------
(* The resolver on ongoing layers, with and without the limits of a         *)
(* coverage panel.                                                          *)

InitOngoing ==
  /\ op = "resolve"
  /\ tzOffset \in TZOffsets
  /\ \E period \in Periods : \E anchor \in Anchors(period) :
       /\ \E rs \in RangeSeqs(period, anchor) : \E futureTime \in BOOLEAN :
            def = [period |-> period, ongoing |-> TRUE,
                   futureTime |-> futureTime, dateRanges |-> rs]
       /\ limits \in {<<>>} \cup LimitsOf(period, anchor)
       /\ date \in Requests(period, anchor)
       /\ appNow = NowOf(period, anchor)
  /\ dateArray = <<>>
  /\ IdleOverlap /\ IdleAdjust /\ IdleCodec /\ IdleCall

SpecOngoing == InitOngoing /\ [][NextResolve]_vars

\* The layer with its last range ending at the date given, and not ongoing
EndingAt(layer, endDate) ==
  [layer EXCEPT !.ongoing = FALSE,
                !.dateRanges[Len(layer.dateRanges)].endDate = endDate]

\* The end the last range of an ongoing layer is to be stepped to
PromisedEnd == IF def.futureTime THEN Last(def.dateRanges).endDate ELSE appNow

\* Every range is traversed, and the last one is more than a single date
FullTraversal ==
  /\ limits # <<>> \/ Len(def.dateRanges) > 1 \/ def.dateRanges[1].dateInterval # 1
  /\ Last(def.dateRanges).startDate # Last(def.dateRanges).endDate

\* C24: in full traversal mode the last declared range of an ongoing layer
\* is stepped to its declared endDate when futureTime is set and to appNow
\* otherwise, with outer limits and without them: the dates are those of
\* the layer whose last range ends there.
C24_OngoingSteppedToNow ==
  (op = "resolved" /\ FullTraversal) =>
    dateArray = datesInDateRanges(EndingAt(def, PromisedEnd), date, limits, appNow)

-----------------------------------------------------------------------------
(* Properties of the resolver on ranges that overlap.                       *)

\* The layer with its first range alone
FirstRangeOnly(layer) ==
  [layer EXCEPT !.ongoing = FALSE, !.dateRanges = <<layer.dateRanges[1]>>]

\* The dates accumulated when the second range is reached
AccumulatedBefore == datesInDateRanges(FirstRangeOnly(def), date, limits, appNow)

\* How often the date occurs in the sequence
Occurrences(s, d) == Cardinality({ i \in 1..Len(s) : s[i] = d })

\* A daily or monthly layer of two ranges was resolved within limits
TwoRangesReconciled ==
  /\ op = "resolved" /\ limits # <<>>
  /\ def.period \in {"daily", "monthly"}
  /\ Len(def.dateRanges) = 2

\* C25: after a range that overlaps the dates accumulated so far has been
\* processed, the sequence is strictly ascending and holds each date
\* accumulated before exactly once.
C25_ReconciledWithoutLoss ==
  TwoRangesReconciled =>
    /\ Ascending(dateArray)
    /\ \A d \in Elems(AccumulatedBefore) : Occurrences(dateArray, d) = 1

-----------------------------------------------------------------------------
(* The resolver on one range and a coverage panel that may lie apart from   *)
(* it.                                                                      *)

\* The start and end dates of a panel: those of LimitWindows, one that
\* begins a unit or more after every range has ended with its last step, and
\* one that ends before the ranges start
PanelWindows ==
  LimitWindows \cup { <<MaxLen + MaxInterval + 1, 2 * MaxLen + MaxInterval + 2>>, <<-3, -1>> }

PanelLimitsOf(period, anchor) ==
  { <<UnitDate(period, anchor, ab[1]), UnitDate(period, anchor, ab[2])>> :
      ab \in PanelWindows }

InitPanel ==
  /\ op = "resolve"
  /\ tzOffset \in TZOffsets
  /\ \E period \in {"daily", "monthly"} : \E anchor \in Anchors(period) :
       /\ \E rs \in RangeSeqs(period, anchor) : \E fl \in LayerFlags :
            /\ Len(rs) = 1
            /\ def = [period |-> period, ongoing |-> fl[1],
                      futureTime |-> fl[2], dateRanges |-> rs]
       /\ limits \in PanelLimitsOf(period, anchor)
       /\ date \in Requests(period, anchor)
       /\ appNow = NowOf(period, anchor)
  /\ dateArray = <<>>
  /\ IdleOverlap /\ IdleAdjust /\ IdleCodec /\ IdleCall

SpecPanel == InitPanel /\ [][NextResolve]_vars

\* The most steps from the start of a range to a start limit
MaxSteps == 3 * MaxLen + MaxInterval + 4

\* The k-th stepped instant of the only range of the layer
SteppedInstant(k) ==
  SteppedDate(def.period, getUTCNumbers(def.dateRanges[1].startDate), k,
              def.dateRanges[1].dateInterval)

\* The revised start of the only range: the last stepped instant that does
\* not exceed the start limit, or the start of a range that begins after it
RevisedStart ==
  IF SteppedInstant(0) > limits[1] THEN SteppedInstant(0)
  ELSE SteppedInstant(CHOOSE k \in 0..MaxSteps :
                        /\ SteppedInstant(k) <= limits[1]
                        /\ SteppedInstant(k + 1) > limits[1])

\* A daily or monthly layer of one range was resolved within limits
OneRangeWithinLimits ==
  /\ op = "resolved" /\ limits # <<>>
  /\ def.period \in {"daily", "monthly"}
  /\ Len(def.dateRanges) = 1

\* C26: with outer limits a daily or monthly range emits only dates from its
\* revised start onward, also when it starts after the start limit and when
\* it lies before the start limit, and no date later than the end limit.
C26_FromRevisedStartToEndLimit ==
  OneRangeWithinLimits =>
    \A d \in Elems(dateArray) : RevisedStart <= d /\ d <= limits[2]

-----------------------------------------------------------------------------
(* layersParse12 up to its lstates, for strings written from layer tokens   *)
(* and a catalog with or without redirects.                                 *)

\* An id that is handed on as it was read
KeepLayerId(layerId, redirects) == layerId

\* layerId after lines 1171-1173; redirects says whether the catalog has
\* config.redirects.layers
RedirectedId(layerId, redirects) ==
  IF redirects THEN Redirect(layerId) ELSE layerId

\* lstate of a layerDef
LayerStateIn(layerDef, redirects) ==
  [id |-> RedirectedId(MatchLayerId(layerDef), redirects),
   attributes |-> AttributesOfParens(MatchParens(layerDef))]

\* lstates for the matches layerDefs
LayerStatesFrom(layerDefs, redirects) ==
  [n \in 1..Len(layerDefs) |-> LayerStateIn(layerDefs[n], redirects)]

\* lstates when createLayerArrayFromState is called
LayerStatesIn(str, redirects) ==
  LayerStatesFrom(MatchLayerDefs(str, 1), redirects)

\* The ids a token is written with, and its pairs: a bare key and a key
\* with a value
TokenIds == {"a", "x", "old"}

TokenPairs ==
  { [key |-> "hidden", value |-> TrueValue],
    [key |-> "opacity", value |-> StringValue(<<"0.5">>)] }

\* A layer token: an id and at most MaxAttributes pairs
LayerTokens ==
  [id : TokenIds,
   pairs : UNION { [1..n -> TokenPairs] : n \in 0..MaxAttributes }]

\* 1 to MaxLayers layer tokens
TokenLists == UNION { [1..n -> LayerTokens] : n \in 1..MaxLayers }

\* k or k=v
WrittenPair(pair) ==
  IF pair.value.bare THEN <<pair.key>>
  ELSE <<pair.key, "=">> \o pair.value.str

\* id or id(k1=v1,k2=v2)
WrittenToken(token) ==
  IF token.pairs = <<>> THEN <<token.id>>
  ELSE <<token.id, "(">>
         \o Join([k \in 1..Len(token.pairs) |-> WrittenPair(token.pairs[k])], ",")
         \o <<")">>

\* The tokens with a comma between them
WrittenString(tokens) ==
  Join([n \in 1..Len(tokens) |-> WrittenToken(tokens[n])], ",")

InitTokens ==
  /\ tzOffset = 0
  /\ def = IdleLayer
  /\ appNow = 0
  /\ op = "tokens"
  /\ \E tokens \in TokenLists : \E redirects \in BOOLEAN :
       arg = [tokens |-> tokens, stateObj |-> WrittenString(tokens),
              redirects |-> redirects]
  /\ returned = <<>>
  /\ IdleResolver /\ IdleOverlap /\ IdleAdjust /\ IdleCodec

\* layersParse12 reads the string into lstates
ReadLayerStates ==
  /\ op = "tokens"
  /\ returned' = LayerStatesIn(arg.stateObj, arg.redirects)
  /\ op' = "tokenized"
  /\ UNCHANGED <<arg, tzOffset, def, appNow, resolverVars, overlapVars, adjustVars, codecVars>>

NextTokens == ReadLayerStates

SpecTokens == InitTokens /\ [][NextTokens]_vars

\* The attribute a pair of a token stands for
PairAttribute(pair) == [id |-> <<pair.key>>, value |-> pair.value]

\* The layer state a token stands for
TokenState(token, redirects) ==
  [id |-> IF redirects THEN Redirect(<<token.id>>) ELSE <<token.id>>,
   attributes |-> [k \in 1..Len(token.pairs) |-> PairAttribute(token.pairs[k])]]

\* C23: for a string of comma-separated tokens id or id(k1=v1,k2,...),
\* layersParse12 builds one layer state per token, in the order of the
\* tokens: its id is the redirected text before the "(", every k=v is the
\* attribute (k, v), every bare k the attribute (k, true), and a token
\* without parentheses has no attributes.
C23_OneStatePerToken ==
  op = "tokenized" =>
    /\ Len(returned) = Len(arg.tokens)
    /\ \A n \in 1..Len(arg.tokens) :
         returned[n] = TokenState(arg.tokens[n], arg.redirects)

\* A redirected id with a bare key and a key with a value, and behind it a
\* token without parentheses, have been read
C23_RedirectedTokenRead ==
  /\ op = "tokenized"
  /\ arg.stateObj = <<"old", "(", "hidden", ",", "opacity", "=", "0.5", ")", ",", "a">>
  /\ arg.redirects
  /\ returned = << [id |-> <<"b">>,
                    attributes |-> << [id |-> <<"hidden">>, value |-> TrueValue],
                                      [id |-> <<"opacity">>, value |-> StringValue(<<"0.5">>)] >>],
                   [id |-> <<"a">>, attributes |-> <<>>] >>

-----------------------------------------------------------------------------
(* The resolver and the two parsers called again and again by a caller that *)
(* holds one layer definition and one catalog.                              *)

\* A caller makes at most MaxCalls calls
MaxCalls == 3

\* A resolver that takes the range it has stepped through off the definition
RangesShiftedAfterDates(layer) ==
  IF layer.dateRanges = <<>> THEN layer
  ELSE [layer EXCEPT !.dateRanges = Tail(@)]

\* def after datesInDateRanges has returned: the function reads period,
\* dateRanges, ongoing and futureTime and copies every date it steps
LayerAfterDates(layer) == layer

\* The strings a caller has its layers in
HeldPermalinks ==
  { <<"a">>,
    <<"old", ",", "!", "a">>,
    <<"a", "(", "hidden", ")", ",", "x">>,
    <<"a", "(", "disabled", ")">> }

\* The results of the calls made so far, in the order of the calls
NoResults == [datesInDateRanges |-> <<>>, layersParse11 |-> <<>>, layersParse12 |-> <<>>]

CallsMade ==
  Len(returned.datesInDateRanges) + Len(returned.layersParse11)
    + Len(returned.layersParse12)

InitRepeat ==
  /\ op = "call"
  /\ tzOffset = 0
  /\ \E period \in Periods : \E anchor \in Anchors(period) :
       /\ \E rs \in RangeSeqs(period, anchor) :
            def = [period |-> period, ongoing |-> FALSE,
                   futureTime |-> FALSE, dateRanges |-> rs]
       /\ limits \in {<<>>} \cup LimitsOf(period, anchor)
       /\ date = UnitDate(period, anchor, 1)
       /\ appNow = NowOf(period, anchor)
  /\ dateArray = <<>>
  /\ activeLayers = <<>>
  /\ permalink \in HeldPermalinks
  /\ parsed = [threw |-> FALSE, layers |-> <<>>]
  /\ events = <<>>
  /\ arg = def
  /\ returned = NoResults
  /\ IdleOverlap /\ IdleAdjust

\* datesInDateRanges is called with the layer, the date and the limits
CallDatesInDateRanges ==
  /\ CallsMade < MaxCalls
  /\ dateArray' = datesInDateRanges(def, date, limits, appNow)
  /\ returned' = [returned EXCEPT !.datesInDateRanges = Append(@, dateArray')]
  /\ def' = LayerAfterDates(def)
  /\ UNCHANGED <<op, arg, tzOffset, date, limits, appNow, overlapVars, adjustVars, codecVars>>

\* layersParse11 is called with the string; googleTagManager keeps the
\* events of every call
CallLayersParse11 ==
  /\ CallsMade < MaxCalls
  /\ parsed' = layersParse11(permalink).outcome
  /\ events' = events \o layersParse11(permalink).events
  /\ returned' = [returned EXCEPT !.layersParse11 = Append(@, parsed')]
  /\ UNCHANGED <<op, arg, tzOffset, def, appNow, activeLayers, permalink, resolverVars, overlapVars, adjustVars>>

\* layersParse12 is called with the string
CallLayersParse12 ==
  /\ CallsMade < MaxCalls
  /\ parsed' = layersParse12(permalink)
  /\ events' = events \o PushedEvents(LayerStatesOf(permalink))
  /\ returned' = [returned EXCEPT !.layersParse12 = Append(@, parsed')]
  /\ UNCHANGED <<op, arg, tzOffset, def, appNow, activeLayers, permalink, resolverVars, overlapVars, adjustVars>>

NextRepeat == CallDatesInDateRanges \/ CallLayersParse11 \/ CallLayersParse12

SpecRepeat == InitRepeat /\ [][NextRepeat]_vars

\* Every result in the list equals the first
AllAsFirst(results) == \A n \in 1..Len(results) : results[n] = results[1]

====
